---- MODULE Spec2Model ----
(***************************************************************************)
(* Dynamic-topology sculpt session of source/blender/editors/sculpt_paint/ *)
(* sculpt_dyntopo.c: the toggle operator, the enable/disable transitions,  *)
(* the attribute-layer manager, the disk-cycle maintainer and the UV       *)
(* solver's vertex merging.                                                *)
(*                                                                         *)
(* Attribute-layer offsets are counted in layer slots: CustomData lays the *)
(* layers of an element block out in list order, so a byte offset is a     *)
(* strictly increasing function of the slot and two offsets are equal      *)
(* exactly when their slots are.                                           *)
(***************************************************************************)
EXTENDS Integers, Sequences, FiniteSets, TLC

(* ---------------------------------------------------------------- bounds *)
MaxMods == 2
MaxFaces == 2
MaxSides == 4
MaxValence == 2

(* ------------------------------------------------------------- variables *)
VARIABLES
  mods,   \* ob->modifiers: sequence of [type, realtime]
  cfg,    \* build and process configuration: DYNTOPO_DYNAMIC_TESS, DYNTOPO_CD_INTERP, G.background, undo stack
  w,      \* the object: mesh (me_*), sculpt session (ss_*) and boundary-rep mesh (bm_*)
  last,   \* the last operator/function call: name, arguments, result
  pc      \* position inside SCULPT_dyntopo_get_cotangents

vars == <<mods, cfg, w, last, pc>>

(* ---------------------------------------------------------------- values *)
\* binds the value of x once and hands it to F
With(x, F(_)) == CHOOSE r \in {F(a) : a \in {x}} : TRUE

(* ------------------------------------------------------------ CustomData *)
\* eCustomDataType numbers: layers of one CustomData are kept ordered by type.
TypeNum(t) ==
  CASE t = "CD_FACEMAP" -> 9
    [] t = "CD_PROP_FLOAT" -> 10
    [] t = "CD_PROP_INT32" -> 11
    [] t = "CD_PAINT_MASK" -> 34
    [] t = "CD_SCULPT_FACE_SETS" -> 42
    [] t = "CD_PROP_COLOR" -> 47
    [] t = "CD_PROP_FLOAT3" -> 48
    [] t = "CD_DYNTOPO_VERT" -> 51

Layer(t, n, tmp) == [type |-> t, name |-> n, temp |-> tmp]

\* smallest member of a set of indices (0-based result), or -1 for the empty set
FirstOf(I) == IF I = {} THEN -1 ELSE (CHOOSE i \in I : \A j \in I : i <= j) - 1

CustomData_get_layer_index(data, type) ==
  FirstOf({i \in 1..Len(data) : data[i].type = type})

CustomData_get_named_layer_index(data, type, name) ==
  FirstOf({i \in 1..Len(data) : data[i].type = type /\ data[i].name = name})

CustomData_has_layer(data, type) == CustomData_get_layer_index(data, type) >= 0

\* the offset stored in data->layers[idx]
LayerOffsetAt(data, idx) == idx

CustomData_get_offset(data, type) ==
  With(CustomData_get_layer_index(data, type), LAMBDA li :
    IF li < 0 THEN -1 ELSE LayerOffsetAt(data, li))

CustomData_get_n_offset(data, type, n) ==
  With(CustomData_get_layer_index(data, type), LAMBDA li :
    IF li < 0 THEN -1 ELSE LayerOffsetAt(data, li + n))

\* number of the named layer among the layers of its type, or -1
CustomData_get_named_layer(data, type, name) ==
  With(CustomData_get_named_layer_index(data, type, name), LAMBDA ni :
    IF ni < 0 THEN -1 ELSE ni - CustomData_get_layer_index(data, type))

\* new layers are inserted behind the last layer whose type number is not larger
BM_data_layer_add_named(data, type, name) ==
  With(Cardinality({i \in 1..Len(data) : TypeNum(data[i].type) <= TypeNum(type)}), LAMBDA k :
    SubSeq(data, 1, k) \o <<Layer(type, name, FALSE)>> \o SubSeq(data, k + 1, Len(data)))

\* a request with an empty name asks for any layer of the type
ReqIndex(data, req) ==
  IF req.name = "" THEN CustomData_get_layer_index(data, req.type)
  ELSE CustomData_get_named_layer_index(data, req.type, req.name)

SetTemp(data, idx) == [data EXCEPT ![idx + 1].temp = TRUE]

\* one request: the layer is added when absent, then its flag is or-ed in
EnsureOne(data, req) ==
  With(IF ReqIndex(data, req) < 0
         THEN BM_data_layer_add_named(data, req.type, req.name) ELSE data, LAMBDA d1 :
    IF req.temp THEN SetTemp(d1, ReqIndex(d1, req)) ELSE d1)

RECURSIVE BM_data_layers_ensure(_, _)
BM_data_layers_ensure(data, reqs) ==
  IF reqs = <<>> THEN data
  ELSE With(EnsureOne(data, Head(reqs)), LAMBDA d : BM_data_layers_ensure(d, Tail(reqs)))

(* ----------------------------------------------------------- layer names *)
dyntopop_node_idx_layer_id == "_dyntopo_node_id"
dyntopop_faces_areas_layer_id == "__dyntopo_face_areas"
SCULPT_LAYER_PERS_CO == "SCULPT_LAYER_PERS_CO"
SCULPT_LAYER_PERS_NO == "SCULPT_LAYER_PERS_NO"
SCULPT_LAYER_PERS_DISP == "SCULPT_LAYER_PERS_DISP"
SCULPT_LAYER_DISP == "SCULPT_LAYER_DISP"

(* ------------------------------------------------------- cached offsets *)
Emit(s, e) == [s EXCEPT !.ev = Append(@, e)]

\* the offset each cached field of the session stands for, in the current layout
ActualOffset(s, field) ==
  CASE field = "cd_dyn_vert" -> CustomData_get_offset(s.bm_vdata, "CD_DYNTOPO_VERT")
    [] field = "cd_vcol_offset" -> CustomData_get_offset(s.bm_vdata, "CD_PROP_COLOR")
    [] field = "cd_faceset_offset" -> CustomData_get_offset(s.bm_pdata, "CD_SCULPT_FACE_SETS")
    [] field = "cd_vert_node_offset" ->
         CustomData_get_named_layer_index(s.bm_vdata, "CD_PROP_INT32", dyntopop_node_idx_layer_id)
    [] field = "cd_face_node_offset" ->
         CustomData_get_named_layer_index(s.bm_pdata, "CD_PROP_INT32", dyntopop_node_idx_layer_id)
    [] field = "cd_face_areas" ->
         CustomData_get_named_layer_index(s.bm_pdata, "CD_PROP_FLOAT", dyntopop_faces_areas_layer_id)

\* a read of ss-><field>: recorded when the cached value is not the layer's offset
ReadCd(s, field) ==
  IF s[field] # ActualOffset(s, field) THEN Emit(s, <<"stale_read", field>>) ELSE s

\* reads of several cached fields, in order
RECURSIVE ReadCds(_, _)
ReadCds(s, fields) ==
  IF fields = <<>> THEN s
  ELSE With(ReadCd(s, Head(fields)), LAMBDA s1 : ReadCds(s1, Tail(fields)))

(* ------------------------------------------------ attribute-layer manager *)
vlayers == << Layer("CD_PAINT_MASK", "", FALSE),
              Layer("CD_DYNTOPO_VERT", "", TRUE),
              Layer("CD_PROP_INT32", dyntopop_node_idx_layer_id, TRUE) >>

flayers == << Layer("CD_PROP_INT32", dyntopop_node_idx_layer_id, TRUE),
              Layer("CD_PROP_FLOAT", dyntopop_faces_areas_layer_id, TRUE) >>

\* the offset of the node-index layer, through its number among the int32 layers
NodeOffset(data) ==
  With(CustomData_get_named_layer_index(data, "CD_PROP_INT32", dyntopop_node_idx_layer_id),
       LAMBDA index :
    CustomData_get_n_offset(data, "CD_PROP_INT32",
                            index - CustomData_get_layer_index(data, "CD_PROP_INT32")))

\* ss->cd_face_areas: CustomData_get_named_layer's result used as an index into layers[]
FaceAreasOffset(pd) ==
  LayerOffsetAt(pd, CustomData_get_named_layer(pd, "CD_PROP_FLOAT", dyntopop_faces_areas_layer_id))

SCULPT_dyntopo_node_layers_add(s) ==
  With(BM_data_layers_ensure(s.bm_vdata, vlayers), LAMBDA vd :
  With(BM_data_layers_ensure(s.bm_pdata, flayers), LAMBDA pd :
    [s EXCEPT
       !.bm_vdata = vd,
       !.bm_pdata = pd,
       !.cd_dyn_vert = CustomData_get_offset(vd, "CD_DYNTOPO_VERT"),
       !.cd_vcol_offset = CustomData_get_offset(vd, "CD_PROP_COLOR"),
       !.cd_vert_node_offset = NodeOffset(vd),
       !.cd_face_node_offset = NodeOffset(pd),
       !.cd_faceset_offset = CustomData_get_offset(pd, "CD_SCULPT_FACE_SETS"),
       !.cd_face_areas = FaceAreasOffset(pd)]))

\* BKE_pbvh_update_offsets receives the four cached offsets by value
PbvhTakeOffsets(s) ==
  With(ReadCds(s, <<"cd_vert_node_offset", "cd_face_node_offset", "cd_dyn_vert",
                    "cd_face_areas">>), LAMBDA r :
    [r EXCEPT !.pbvh_cd = [cd_vert_node_offset |-> s.cd_vert_node_offset,
                           cd_face_node_offset |-> s.cd_face_node_offset,
                           cd_dyn_vert |-> s.cd_dyn_vert,
                           cd_face_areas |-> s.cd_face_areas]])

\* BM_log_set_cd_offsets / BM_log_create receive ss->cd_dyn_vert by value
LogTakeOffset(s) ==
  With(ReadCd(s, "cd_dyn_vert"), LAMBDA r : [r EXCEPT !.log_cd_dyn_vert = s.cd_dyn_vert])

SCULPT_dyntopo_node_layers_update_offsets(s) ==
  With(SCULPT_dyntopo_node_layers_add(s), LAMBDA s1 :
  With(IF s1.pbvh # "NULL" THEN PbvhTakeOffsets(s1) ELSE s1, LAMBDA s2 :
    IF s2.bm_log THEN LogTakeOffset(s2) ELSE s2))

SCULPT_dyntopo_has_templayer(s, type, name) ==
  CustomData_get_named_layer_index(s.bm_vdata, type, name) >= 0

\* the layer is added and the cached offsets are refreshed
AddTemplayer(s, type, name) ==
  With([s EXCEPT !.bm_vdata = BM_data_layer_add_named(@, type, name)], LAMBDA s1 :
  With(SCULPT_dyntopo_node_layers_update_offsets(s1), LAMBDA s2 :
    [s2 EXCEPT !.bm_vdata =
       SetTemp(@, CustomData_get_named_layer_index(s2.bm_vdata, type, name))]))

\* variant: the layer is added without looking for it first
SCULPT_dyntopo_ensure_templayer_unchecked(s, type, name) == AddTemplayer(s, type, name)

SCULPT_dyntopo_ensure_templayer(s, type, name) ==
  IF CustomData_get_named_layer_index(s.bm_vdata, type, name) < 0
    THEN AddTemplayer(s, type, name)
    ELSE s

\* variant: the lookup allocates the layer it does not find
SCULPT_dyntopo_get_templayer_allocating(s, type, name) ==
  With(SCULPT_dyntopo_ensure_templayer(s, type, name), LAMBDA s1 :
    [ret |-> CustomData_get_named_layer_index(s1.bm_vdata, type, name), s |-> s1])

\* variant: the offset of the first layer of the type, whatever its name
SCULPT_dyntopo_get_templayer_unnamed(s, type, name) ==
  [ret |-> IF CustomData_get_named_layer_index(s.bm_vdata, type, name) < 0 THEN -1
           ELSE CustomData_get_offset(s.bm_vdata, type),
   s |-> s]

\* the returned offset, and the session as the call leaves it
SCULPT_dyntopo_get_templayer(s, type, name) ==
  With(CustomData_get_named_layer_index(s.bm_vdata, type, name), LAMBDA li :
    [ret |-> IF li < 0 THEN -1
             ELSE CustomData_get_n_offset(s.bm_vdata, type,
                                          li - CustomData_get_layer_index(s.bm_vdata, type)),
     s |-> s])

\* layers of the mesh domain that the boundary-rep domain lacks, in mesh order
NewLayers(data1, data2) ==
  SelectSeq(data1, LAMBDA cl1 : CustomData_get_named_layer_index(data2, cl1.type, cl1.name) < 0)

RECURSIVE AddAll(_, _)
AddAll(data2, newlayers) ==
  IF newlayers = <<>> THEN data2
  ELSE With(BM_data_layer_add_named(data2, Head(newlayers).type, Head(newlayers).name),
            LAMBDA d : AddAll(d, Tail(newlayers)))

\* one pass of the per-domain loop: the new layout and whether it was modified
SyncDomain(data1, data2) ==
  IF data1 = <<>> THEN [data |-> data2, modified |-> data2 # <<>>]
  ELSE With(NewLayers(data1, data2), LAMBDA new :
         [data |-> AddAll(data2, new), modified |-> new # <<>>])

SCULPT_dynamic_topology_sync_layers(s) ==
  IF ~s.bm THEN s
  ELSE With(SyncDomain(s.me_vdata, s.bm_vdata), LAMBDA v :
       With(SyncDomain(s.me_pdata, s.bm_pdata), LAMBDA p :
       With([s EXCEPT !.bm_vdata = v.data, !.bm_pdata = p.data], LAMBDA s1 :
         IF v.modified \/ p.modified
           THEN SCULPT_dyntopo_node_layers_update_offsets(s1) ELSE s1)))

(* -------------------------------------------------- enable / disable core *)
NoPbvhOffsets == [cd_vert_node_offset |-> -1, cd_face_node_offset |-> -1,
                  cd_dyn_vert |-> -1, cd_face_areas |-> -1]

SCULPT_pbvh_clear(s) ==
  Emit([s EXCEPT !.pbvh = "NULL", !.pbvh_cd = NoPbvhOffsets], <<"DEG_id_tag_update">>)

RECURSIVE SumSeq(_)
SumSeq(q) == IF q = <<>> THEN 0 ELSE Head(q) + SumSeq(Tail(q))

\* a face of len sides is replaced by len - 2 triangles
RECURSIVE TriangulateFaces(_)
TriangulateFaces(faces) ==
  IF faces = <<>> THEN <<>>
  ELSE (IF Head(faces) <= 3 THEN <<Head(faces)>> ELSE [i \in 1..(Head(faces) - 2) |-> 3])
       \o TriangulateFaces(Tail(faces))

SCULPT_dynamic_topology_triangulate(s) ==
  With(IF SumSeq(s.bm_faces) = Len(s.bm_faces) * 3 THEN s
       ELSE [s EXCEPT !.bm_faces = TriangulateFaces(@)], LAMBDA s1 :
    [s1 EXCEPT !.ss_totfaces = Len(s1.bm_faces), !.ss_totvert = s1.bm_totvert])

\* the loop over BM_VERTS_OF_MESH reads the two cached offsets for every vertex
SCULPT_dyntopo_save_origverts(s) ==
  IF s.bm_totvert > 0 THEN ReadCds(s, <<"cd_dyn_vert", "cd_vcol_offset">>) ELSE s

\* BM_mesh_create + BM_mesh_bm_from_me
BM_mesh_bm_from_me(s) ==
  [s EXCEPT !.bm = TRUE,
            !.bm_totvert = s.me_totvert,
            !.bm_faces = s.me_faces,
            !.bm_vdata = s.me_vdata,
            !.bm_pdata = s.me_pdata,
            !.bm_sort = [v \in 1..s.me_totvert |-> FALSE]]

\* variant: the triangulation is not compiled out when tessellation is dynamic
EnableTriangulate_unconditional(s, c) == SCULPT_dynamic_topology_triangulate(s)

\* #ifndef DYNTOPO_DYNAMIC_TESS: the faces are triangulated unless tessellation is dynamic
EnableTriangulate(s, c) ==
  IF c.DYNTOPO_DYNAMIC_TESS THEN s ELSE SCULPT_dynamic_topology_triangulate(s)

pers_layers == << Layer("CD_PROP_FLOAT3", SCULPT_LAYER_PERS_CO, TRUE),
                  Layer("CD_PROP_FLOAT3", SCULPT_LAYER_PERS_NO, TRUE),
                  Layer("CD_PROP_FLOAT", SCULPT_LAYER_PERS_DISP, TRUE),
                  Layer("CD_PROP_FLOAT", SCULPT_LAYER_DISP, TRUE) >>

\* "convert layer brush data": the layers of the snapshot, when there is a snapshot
EnablePersLayers(s) ==
  IF s.persistent_base >= 0
    THEN [s EXCEPT !.bm_vdata = BM_data_layers_ensure(@, pers_layers)] ELSE s

\* the local cd_pers_co of the enable transition
EnablePersCo(s) ==
  IF s.persistent_base >= 0
    THEN SCULPT_dyntopo_get_templayer(s, "CD_PROP_FLOAT3", SCULPT_LAYER_PERS_CO).ret ELSE -1

\* variant: the loop sets DYNVERT_NEED_VALENCE only
EnableVertLoop_valenceonly(s, cd_pers_co) ==
  With(ReadCds(s, <<"cd_dyn_vert", "cd_faceset_offset", "cd_vcol_offset">>), LAMBDA s1 :
    IF cd_pers_co >= 0
      THEN With(Emit(s1, <<"persistent_base_copy", s.bm_totvert>>), LAMBDA s3 :
             IF s.bm_totvert > s.persistent_base
               THEN Emit(s3, <<"persistent_base_read_past_end">>) ELSE s3)
      ELSE s1)

\* the per-vertex loop of the enable transition
EnableVertLoop(s, cd_pers_co) ==
  With(ReadCds(s, <<"cd_dyn_vert", "cd_faceset_offset", "cd_vcol_offset">>), LAMBDA s1 :
  With([s1 EXCEPT !.bm_sort = [v \in 1..s.bm_totvert |-> TRUE]], LAMBDA s2 :
    IF cd_pers_co >= 0
      THEN With(Emit(s2, <<"persistent_base_copy", s.bm_totvert>>), LAMBDA s3 :
             IF s.bm_totvert > s.persistent_base
               THEN Emit(s3, <<"persistent_base_read_past_end">>) ELSE s3)
      ELSE s2))

\* BM_log_create(ss->bm, ss->cd_dyn_vert)
EnableLog(s) ==
  With(Emit(s, <<"BM_log_create">>), LAMBDA s1 : [LogTakeOffset(s1) EXCEPT !.bm_log = TRUE])

SCULPT_dynamic_topology_enable_ex(s, c) ==
  With(SCULPT_pbvh_clear(s), LAMBDA s1 :
  With(BM_mesh_bm_from_me(s1), LAMBDA s2 :
  With(EnableTriangulate(s2, c), LAMBDA s3 :
  With(SCULPT_dyntopo_node_layers_add(s3), LAMBDA s4 :
  With(SCULPT_dyntopo_save_origverts(s4), LAMBDA s5 :
  With(EnablePersLayers(s5), LAMBDA s6 :
  With(SCULPT_dyntopo_node_layers_update_offsets(s6), LAMBDA s7 :
  With(EnableVertLoop(s7, EnablePersCo(s6)), LAMBDA s8 :
  With(EnableLog([s8 EXCEPT !.me_dyntopo = TRUE]), LAMBDA s9 :
    Emit(s9, <<"DEG_id_tag_update">>))))))))))

SCULPT_dyntopo_save_persistent_base(s) ==
  With(Emit(s, <<"SCULPT_dyntopo_save_persistent_base">>), LAMBDA s1 :
    IF SCULPT_dyntopo_get_templayer(s, "CD_PROP_FLOAT3", SCULPT_LAYER_PERS_CO).ret >= 0
      THEN [s1 EXCEPT !.persistent_base = s.bm_totvert] ELSE s1)

\* BKE_sculptsession_bm_to_me: flushes the boundary-rep mesh, when there is one
BKE_sculptsession_bm_to_me(s) ==
  IF s.bm
    THEN [s EXCEPT !.me_totvert = s.bm_totvert,
                   !.me_faces = s.bm_faces,
                   !.me_vdata = SelectSeq(s.bm_vdata, LAMBDA l : ~l.temp),
                   !.me_pdata = SelectSeq(s.bm_pdata, LAMBDA l : ~l.temp)]
    ELSE s

BM_mesh_free(s) ==
  [Emit(s, <<"BM_mesh_free">>) EXCEPT
     !.bm = FALSE, !.bm_totvert = 0, !.bm_faces = <<>>, !.bm_vdata = <<>>,
     !.bm_pdata = <<>>, !.bm_sort = <<>>]

BM_log_free(s) ==
  [Emit(s, <<"BM_log_free">>) EXCEPT !.bm_log = FALSE, !.log_cd_dyn_vert = -1]

\* variant: the snapshot rebuild under the log is not guarded by ss->bm
DisableLog_unguarded(s) ==
  IF s.bm_log
    THEN With(SCULPT_dyntopo_save_persistent_base(s), LAMBDA a : BM_log_free(a))
    ELSE s

\* if (ss->bm_log) { if (ss->bm) { save } free the log }
DisableLog(s) ==
  IF s.bm_log
    THEN With(IF s.bm THEN SCULPT_dyntopo_save_persistent_base(s) ELSE s, LAMBDA a :
           BM_log_free(a))
    ELSE s

\* variant: the snapshot is rebuilt again before the mesh is freed
DisableMesh_resave(s, disp_saved) ==
  IF s.bm
    THEN With(SCULPT_dyntopo_save_persistent_base(s), LAMBDA a : BM_mesh_free(a))
    ELSE s

\* if (ss->bm) { if (!disp_saved) { save } free the mesh }
DisableMesh(s, disp_saved) ==
  IF s.bm
    THEN With(IF ~disp_saved THEN SCULPT_dyntopo_save_persistent_base(s) ELSE s, LAMBDA a :
           BM_mesh_free(a))
    ELSE s

SCULPT_dynamic_topology_disable_ex(s) ==
  With(SCULPT_pbvh_clear(s), LAMBDA s1 :
  With(BKE_sculptsession_bm_to_me(s1), LAMBDA s2 :
  With([s2 EXCEPT !.me_dyntopo = FALSE], LAMBDA s3 :
  With(DisableLog(s3), LAMBDA s4 :
  With(DisableMesh(s4, s3.bm_log /\ s3.bm), LAMBDA s5 :
    Emit(s5, <<"DEG_id_tag_update">>))))))

(* ----------------------------------------------------- toggle operator *)
use_undo(c) == IF c.background THEN c.undo_stack ELSE TRUE

\* an undo call, made only when use_undo
UndoCall(s, c, e) == IF use_undo(c) THEN Emit(s, e) ELSE s

\* variant: the active vertex and face are kept over the disable
sculpt_dynamic_topology_disable_with_undo_keepactive(s, c) ==
  IF s.bm
    THEN With(UndoCall(s, c, <<"SCULPT_undo_push_begin">>), LAMBDA s1 :
         With(UndoCall(s1, c, <<"SCULPT_undo_push_node", "DYNTOPO_END">>), LAMBDA s2 :
         With(SCULPT_dynamic_topology_disable_ex(s2), LAMBDA s3 :
           UndoCall(s3, c, <<"SCULPT_undo_push_end">>))))
    ELSE s

sculpt_dynamic_topology_disable_with_undo(s, c) ==
  IF s.bm
    THEN With(UndoCall(s, c, <<"SCULPT_undo_push_begin">>), LAMBDA s1 :
         With(UndoCall(s1, c, <<"SCULPT_undo_push_node", "DYNTOPO_END">>), LAMBDA s2 :
         With(SCULPT_dynamic_topology_disable_ex(s2), LAMBDA s3 :
         With(UndoCall(s3, c, <<"SCULPT_undo_push_end">>), LAMBDA s4 :
           [s4 EXCEPT !.active_vertex = 0, !.active_face = 0]))))
    ELSE s

\* variant: the DYNTOPO_BEGIN node is pushed before the enable runs
sculpt_dynamic_topology_enable_with_undo_nodefirst(s, c) ==
  IF ~s.bm
    THEN With(UndoCall(s, c, <<"SCULPT_undo_push_begin">>), LAMBDA s1 :
         With(UndoCall(s1, c, <<"SCULPT_undo_push_node", "DYNTOPO_BEGIN">>), LAMBDA s2 :
         With(SCULPT_dynamic_topology_enable_ex(s2, c), LAMBDA s3 :
         With(UndoCall(s3, c, <<"SCULPT_undo_push_end">>), LAMBDA s4 :
           [s4 EXCEPT !.active_vertex = 0, !.active_face = 0]))))
    ELSE s

sculpt_dynamic_topology_enable_with_undo(s, c) ==
  IF ~s.bm
    THEN With(UndoCall(s, c, <<"SCULPT_undo_push_begin">>), LAMBDA s1 :
         With(SCULPT_dynamic_topology_enable_ex(s1, c), LAMBDA s2 :
         With(UndoCall(s2, c, <<"SCULPT_undo_push_node", "DYNTOPO_BEGIN">>), LAMBDA s3 :
         With(UndoCall(s3, c, <<"SCULPT_undo_push_end">>), LAMBDA s4 :
           [s4 EXCEPT !.active_vertex = 0, !.active_face = 0]))))
    ELSE s

sculpt_dynamic_topology_toggle_exec(s, c) ==
  IF s.bm THEN sculpt_dynamic_topology_disable_with_undo(s, c)
  ELSE sculpt_dynamic_topology_enable_with_undo(s, c)

Constructive(type) == type \in {"Multires", "Subsurf"}

\* the walk over the modifier list, with its break at the first enabled constructive modifier
RECURSIVE CheckModifiers(_, _)
CheckModifiers(md, flag) ==
  IF md = <<>> THEN flag
  ELSE IF ~Head(md).realtime THEN CheckModifiers(Tail(md), flag)
  ELSE With(IF Head(md).type = "Multires" THEN flag \cup {"DYNTOPO_ERROR_MULTIRES"} ELSE flag,
            LAMBDA f1 :
         IF Constructive(Head(md).type) THEN f1 \cup {"DYNTOPO_WARN_MODIFIER"}
         ELSE CheckModifiers(Tail(md), f1))

SCULPT_dynamic_topology_check(s, m, c) ==
  CheckModifiers(m,
    IF ~c.DYNTOPO_CD_INTERP /\ \E i \in 1..Len(s.me_vdata) : s.me_vdata[i].type # "CD_PAINT_MASK"
      THEN {"DYNTOPO_WARN_VDATA"} ELSE {})

\* variant: a warning does not stop the invoke callback
sculpt_dynamic_topology_toggle_invoke_unwarned(s, m, c) ==
  IF s.bm THEN [popup |-> "none", flag |-> {}, s |-> sculpt_dynamic_topology_toggle_exec(s, c)]
  ELSE With(SCULPT_dynamic_topology_check(s, m, c), LAMBDA flag :
    IF "DYNTOPO_ERROR_MULTIRES" \in flag
      THEN [popup |-> "dyntopo_error_popup", flag |-> flag, s |-> s]
    ELSE [popup |-> "none", flag |-> flag, s |-> sculpt_dynamic_topology_toggle_exec(s, c)])

\* the operator's result: which popup is shown (if any) and the state after it
sculpt_dynamic_topology_toggle_invoke(s, m, c) ==
  IF s.bm THEN [popup |-> "none", flag |-> {}, s |-> sculpt_dynamic_topology_toggle_exec(s, c)]
  ELSE With(SCULPT_dynamic_topology_check(s, m, c), LAMBDA flag :
    IF "DYNTOPO_ERROR_MULTIRES" \in flag
      THEN [popup |-> "dyntopo_error_popup", flag |-> flag, s |-> s]
    ELSE IF flag # {}
      THEN [popup |-> "dyntopo_warning_popup", flag |-> flag, s |-> s]
    ELSE [popup |-> "none", flag |-> flag, s |-> sculpt_dynamic_topology_toggle_exec(s, c)])

(* ---------------------------------------------------- disk-cycle maintainer *)
\* variant: the flag is left set after the sort
SCULPT_dyntopo_check_disk_sort_keepflag(s, v) ==
  With(ReadCd(s, "cd_dyn_vert"), LAMBDA s1 :
    IF s1.bm_sort[v]
      THEN [ret |-> TRUE, s |-> Emit(s1, <<"BM_sort_disk_cycle", v>>)]
      ELSE [ret |-> FALSE, s |-> s1])

\* if (mv->flag & DYNVERT_NEED_DISK_SORT): clear the flag, sort, return true
SCULPT_dyntopo_check_disk_sort(s, v) ==
  With(ReadCd(s, "cd_dyn_vert"), LAMBDA s1 :
    IF s1.bm_sort[v]
      THEN [ret |-> TRUE,
            s |-> Emit([s1 EXCEPT !.bm_sort[v] = FALSE], <<"BM_sort_disk_cycle", v>>)]
      ELSE [ret |-> FALSE, s |-> s1])

\* variant: the weight query does not sort on entry
CotangentsEntry_unsorted(s, v) == s

\* the first statement of SCULPT_dyntopo_get_cotangents
CotangentsEntry(s, v) == SCULPT_dyntopo_check_disk_sort(s, v).s

\* PBVH_BMESH case of SCULPT_cotangents_begin: every vertex in table order
RECURSIVE CheckAllDiskSort(_, _)
CheckAllDiskSort(s, i) ==
  IF i > s.bm_totvert THEN s
  ELSE With(SCULPT_dyntopo_check_disk_sort(s, i).s, LAMBDA s1 : CheckAllDiskSort(s1, i + 1))

SCULPT_cotangents_begin(s) ==
  CASE s.pbvh = "PBVH_BMESH" -> CheckAllDiskSort(s, 1)
    [] s.pbvh = "PBVH_FACES" -> [s EXCEPT !.vemap = TRUE]
    [] OTHER -> s

\* BKE_pbvh_bmesh_flag_all_disk_sort
SCULT_dyntopo_flag_all_disk_sort(s) ==
  [s EXCEPT !.bm_sort = [v \in 1..s.bm_totvert |-> TRUE]]

(* ------------------------------------------------------------ input sets *)
SeqsUpTo(S, n) == UNION {[1..k -> S] : k \in 0..n}

ModifierData == [type : {"Multires", "Subsurf", "Armature"}, realtime : BOOLEAN]
ModLists == SeqsUpTo(ModifierData, MaxMods)

\* polygons have at least three sides
FaceLists == SeqsUpTo(3..MaxSides, MaxFaces) \ {<<>>}

Configs == {c \in [DYNTOPO_DYNAMIC_TESS : BOOLEAN, DYNTOPO_CD_INTERP : BOOLEAN,
                   background : BOOLEAN, undo_stack : BOOLEAN] :
              ~c.background => c.undo_stack}

\* an object in sculpt mode with dynamic topology off
StaticObject(totvert, faces, vdata, pdata) ==
  [me_totvert |-> totvert, me_faces |-> faces, me_dyntopo |-> FALSE,
   me_vdata |-> vdata, me_pdata |-> pdata,
   bm |-> FALSE, bm_totvert |-> 0, bm_faces |-> <<>>, bm_vdata |-> <<>>, bm_pdata |-> <<>>,
   bm_sort |-> <<>>,
   bm_log |-> FALSE, log_cd_dyn_vert |-> -1,
   pbvh |-> "NULL", pbvh_cd |-> NoPbvhOffsets, vemap |-> FALSE,
   persistent_base |-> -1,
   cd_dyn_vert |-> -1, cd_vcol_offset |-> -1, cd_vert_node_offset |-> -1,
   cd_face_node_offset |-> -1, cd_faceset_offset |-> -1, cd_face_areas |-> -1,
   ss_totfaces |-> 0, ss_totvert |-> 0,
   active_vertex |-> 0, active_face |-> 0,
   snap |-> [totvert |-> totvert, faces |-> faces],
   ev |-> <<>>]

Begin(s) == [s EXCEPT !.ev = <<>>]

\* the record of a call: its result, the state it started from and the call before it
Call(op, arg, ret, flag, popup, pre) ==
  [op |-> op, arg |-> arg, ret |-> ret, flag |-> flag, popup |-> popup, pre |-> pre,
   prev |-> <<last.op, last.arg>>]

NoCall == [op |-> "none", arg |-> <<>>, ret |-> FALSE, flag |-> {}, popup |-> "none",
           pre |-> <<>>, prev |-> <<>>]

Idle == [at |-> "idle", v |-> 0, i |-> 0, n |-> 0]

(* ---------------------------------------------------------------- actions *)
\* the mesh counts the next enable starts from
Snap(s) ==
  IF s.bm THEN s ELSE [s EXCEPT !.snap = [totvert |-> s.me_totvert, faces |-> s.me_faces]]

ToggleInvoke ==
  /\ pc = Idle
  /\ \E s \in {Snap(Begin(w))} :
       \E r \in {sculpt_dynamic_topology_toggle_invoke(s, mods, cfg)} :
         /\ w' = r.s
         /\ last' = Call("invoke", <<>>, FALSE, r.flag, r.popup, Begin(w))
  /\ UNCHANGED <<mods, cfg, pc>>

ToggleExec ==
  /\ pc = Idle
  /\ \E s \in {Snap(Begin(w))} : w' = sculpt_dynamic_topology_toggle_exec(s, cfg)
  /\ last' = Call("exec", <<>>, FALSE, {}, "none", Begin(w))
  /\ UNCHANGED <<mods, cfg, pc>>

TopologyCheck ==
  /\ pc = Idle
  /\ ~w.bm
  /\ w' = Begin(w)
  /\ last' = Call("check", <<>>, FALSE, SCULPT_dynamic_topology_check(w, mods, cfg), "none", Begin(w))
  /\ UNCHANGED <<mods, cfg, pc>>

DisableWithUndo ==
  /\ pc = Idle
  /\ \E s \in {Begin(w)} : w' = sculpt_dynamic_topology_disable_with_undo(s, cfg)
  /\ last' = Call("disable_with_undo", <<>>, FALSE, {}, "none", Begin(w))
  /\ UNCHANGED <<mods, cfg, pc>>

\* SCULPT_dynamic_topology_disable, the entry the undo system uses
DisableEx ==
  /\ pc = Idle
  /\ \E s \in {Begin(w)} : w' = SCULPT_dynamic_topology_disable_ex(s)
  /\ last' = Call("disable_ex", <<>>, FALSE, {}, "none", Begin(w))
  /\ UNCHANGED <<mods, cfg, pc>>

\* the scene-graph update re-creates the PBVH from the session's cached offsets
PbvhEnsure ==
  /\ pc = Idle
  /\ w.pbvh = "NULL"
  /\ \E s \in {Begin(w)} :
       w' = IF s.bm
              THEN [s EXCEPT !.pbvh = "PBVH_BMESH",
                             !.pbvh_cd = [cd_vert_node_offset |-> s.cd_vert_node_offset,
                                          cd_face_node_offset |-> s.cd_face_node_offset,
                                          cd_dyn_vert |-> s.cd_dyn_vert,
                                          cd_face_areas |-> s.cd_face_areas]]
              ELSE [s EXCEPT !.pbvh = "PBVH_FACES"]
  /\ last' = Call("pbvh_ensure", <<>>, FALSE, {}, "none", Begin(w))
  /\ UNCHANGED <<mods, cfg, pc>>

\* global undo can drop the boundary-rep mesh while the log is still there (T36234)
GlobalUndo ==
  /\ pc = Idle
  /\ w.bm
  /\ w' = [Begin(w) EXCEPT !.bm = FALSE, !.bm_totvert = 0, !.bm_faces = <<>>,
                           !.bm_vdata = <<>>, !.bm_pdata = <<>>, !.bm_sort = <<>>,
                           !.pbvh = "NULL", !.pbvh_cd = NoPbvhOffsets]
  /\ last' = Call("global_undo", <<>>, FALSE, {}, "none", Begin(w))
  /\ UNCHANGED <<mods, cfg, pc>>

\* the cursor picks the vertex and the face under it as the active ones
CursorPick ==
  /\ pc = Idle
  /\ w.pbvh # "NULL"
  /\ \E v \in 1..(IF w.bm THEN w.bm_totvert ELSE w.me_totvert),
        f \in 1..Len(IF w.bm THEN w.bm_faces ELSE w.me_faces) :
       /\ w' = [Begin(w) EXCEPT !.active_vertex = v, !.active_face = f]
       /\ last' = Call("cursor_pick", <<v, f>>, FALSE, {}, "none", Begin(w))
  /\ UNCHANGED <<mods, cfg, pc>>

(* ---------------------------------------- toggle operator: specification *)
Init ==
  /\ mods \in ModLists
  /\ cfg \in Configs
  /\ w = StaticObject(MaxSides, <<MaxSides>>, <<>>, <<>>)
  /\ last = NoCall
  /\ pc = Idle

Next ==
  \/ ToggleInvoke
  \/ ToggleExec
  \/ TopologyCheck
  \/ DisableWithUndo
  \/ PbvhEnsure

Spec == Init /\ [][Next]_vars

(* --------------------------------------- toggle sequences: specification *)
NextToggle ==
  \/ ToggleExec
  \/ PbvhEnsure
  \/ CursorPick

InitToggle ==
  /\ mods \in {m \in ModLists : Len(m) <= 1}
  /\ cfg \in Configs
  /\ w = StaticObject(MaxSides, <<MaxSides>>, <<>>, <<>>)
  /\ last = NoCall
  /\ pc = Idle

SpecToggle == InitToggle /\ [][NextToggle]_vars

(* ------------------------------- enable/disable cycles: specification *)
InitCycle ==
  /\ mods = <<>>
  /\ cfg \in Configs
  /\ \E faces \in FaceLists : w = StaticObject(MaxSides, faces, <<>>, <<>>)
  /\ last = NoCall
  /\ pc = Idle

NextCycle ==
  \/ ToggleExec
  \/ DisableWithUndo
  \/ DisableEx
  \/ PbvhEnsure
  \/ GlobalUndo

SpecCycle == InitCycle /\ [][NextCycle]_vars

(* ------------------------------------------------ disk cycles: actions *)
CheckDiskSort ==
  /\ pc = Idle
  /\ w.bm
  /\ \E v \in 1..w.bm_totvert :
       \E r \in {SCULPT_dyntopo_check_disk_sort(Begin(w), v)} :
         /\ w' = r.s
         /\ last' = Call("check_disk_sort", <<v>>, r.ret, {}, "none", Begin(w))
  /\ UNCHANGED <<mods, cfg, pc>>

CotangentsBegin ==
  /\ pc = Idle
  /\ w.pbvh # "NULL"
  /\ \E s \in {Begin(w)} : w' = SCULPT_cotangents_begin(s)
  /\ last' = Call("cotangents_begin", <<>>, FALSE, {}, "none", Begin(w))
  /\ UNCHANGED <<mods, cfg, pc>>

FlagAllDiskSort ==
  /\ pc = Idle
  /\ w.pbvh = "PBVH_BMESH"
  /\ \E s \in {Begin(w)} : w' = SCULT_dyntopo_flag_all_disk_sort(s)
  /\ last' = Call("flag_all_disk_sort", <<>>, FALSE, {}, "none", Begin(w))
  /\ UNCHANGED <<mods, cfg, pc>>

\* SCULPT_dyntopo_get_cotangents up to the loop: the entry sort, then e = v->e;
\* a vertex without edges returns at once. n is the number of edges around v.
GetCotangentsCall ==
  /\ pc = Idle
  /\ w.bm
  /\ \E v \in 1..w.bm_totvert, n \in 0..MaxValence :
       /\ \E s \in {Begin(w)} : w' = CotangentsEntry(s, v)
       /\ last' = Call("get_cotangents", <<v>>, FALSE, {}, "none", Begin(w))
       /\ pc' = IF n = 0 THEN Idle ELSE [at |-> "walk", v |-> v, i |-> 0, n |-> n]
  /\ UNCHANGED <<mods, cfg>>

\* one turn of the do-while loop: the prev and next disk links of e are read
GetCotangentsWalk ==
  /\ pc.at = "walk"
  /\ w' = Emit(w, <<"read_disk_link", pc.v, w.bm_sort[pc.v]>>)
  /\ pc' = IF pc.i + 1 = pc.n THEN [pc EXCEPT !.at = "scale", !.i = 0]
           ELSE [pc EXCEPT !.i = pc.i + 1]
  /\ UNCHANGED <<mods, cfg, last>>

\* the weights are scaled by 1 / (2 totarea) and the function returns
GetCotangentsReturn ==
  /\ pc.at = "scale"
  /\ pc' = Idle
  /\ UNCHANGED <<mods, cfg, w, last>>

InitDisk ==
  /\ mods = <<>>
  /\ cfg \in {c \in Configs : ~c.background /\ c.DYNTOPO_CD_INTERP}
  /\ w = StaticObject(MaxSides, <<MaxSides>>, <<>>, <<>>)
  /\ last = NoCall
  /\ pc = Idle

NextDisk ==
  \/ ToggleExec
  \/ PbvhEnsure
  \/ CheckDiskSort
  \/ CotangentsBegin
  \/ FlagAllDiskSort
  \/ GetCotangentsCall
  \/ GetCotangentsWalk
  \/ GetCotangentsReturn

SpecDisk == InitDisk /\ [][NextDisk]_vars

(* ------------------------------------------- attribute layers: actions *)
\* the layers the brushes ask for
TempLayers == { <<"CD_PROP_FLOAT3", SCULPT_LAYER_PERS_CO>>,
                <<"CD_PROP_FLOAT3", SCULPT_LAYER_PERS_NO>>,
                <<"CD_PROP_FLOAT", SCULPT_LAYER_PERS_DISP>> }

\* layers a user can add to the mesh while sculpting: <<domain, type, name>>
MeshLayers == { <<"vdata", "CD_PROP_COLOR", "Col">>,
                <<"pdata", "CD_FACEMAP", "">> }

EnsureTemplayer ==
  /\ pc = Idle
  /\ w.bm
  /\ \E k \in TempLayers :
       /\ \E s \in {Begin(w)} : w' = SCULPT_dyntopo_ensure_templayer(s, k[1], k[2])
       /\ last' = Call("ensure_templayer", k, FALSE, {}, "none", Begin(w))
  /\ UNCHANGED <<mods, cfg, pc>>

GetTemplayer ==
  /\ pc = Idle
  /\ w.bm
  /\ \E k \in TempLayers :
       \E r \in {SCULPT_dyntopo_get_templayer(Begin(w), k[1], k[2])} :
         /\ w' = r.s
         /\ last' = Call("get_templayer", k, r.ret, {}, "none", Begin(w))
  /\ UNCHANGED <<mods, cfg, pc>>

\* an attribute layer is added to the persistent mesh during the session
MeshAddLayer ==
  /\ pc = Idle
  /\ w.bm
  /\ \E k \in MeshLayers :
       /\ CustomData_get_named_layer_index(w[IF k[1] = "vdata" THEN "me_vdata" ELSE "me_pdata"],
                                           k[2], k[3]) < 0
       /\ w' = IF k[1] = "vdata"
                 THEN [Begin(w) EXCEPT !.me_vdata = BM_data_layer_add_named(@, k[2], k[3])]
                 ELSE [Begin(w) EXCEPT !.me_pdata = BM_data_layer_add_named(@, k[2], k[3])]
       /\ last' = Call("mesh_add_layer", k, FALSE, {}, "none", Begin(w))
  /\ UNCHANGED <<mods, cfg, pc>>

SyncLayers ==
  /\ pc = Idle
  /\ \E s \in {Begin(w)} : w' = SCULPT_dynamic_topology_sync_layers(s)
  /\ last' = Call("sync_layers", <<>>, FALSE, {}, "none", Begin(w))
  /\ UNCHANGED <<mods, cfg, pc>>

InitLayers ==
  /\ mods = <<>>
  /\ cfg \in {c \in Configs : ~c.background /\ c.DYNTOPO_CD_INTERP /\ c.DYNTOPO_DYNAMIC_TESS}
  /\ w = StaticObject(MaxSides, <<MaxSides>>, <<>>, <<>>)
  /\ last = NoCall
  /\ pc = Idle

NextLayers ==
  \/ ToggleExec
  \/ PbvhEnsure
  \/ EnsureTemplayer
  \/ GetTemplayer
  \/ MeshAddLayer
  \/ SyncLayers

SpecLayers == InitLayers /\ [][NextLayers]_vars

(* -------------------------------------------------------------- UV solver *)
\* UV coordinates are integers counted in 1/Sub of a texel of the 16384 grid
MaxUV == 2
Sub == 2
One == 16384 * Sub
MAXUVLOOPS == 32
MAXUVNEIGHBORS == 32
\* 0.0001, 0.02 and twice 0.000001 (for Sub = 2), in these units
Nudge == One \div 10000
SnapLimit == One \div 50
AreaEps == 2147

\* two triangles, vertices 1 2 3 and 4 3 2, sharing the edge between 2 and 3, and
\* apart from them a quad, vertices 5 6 7 8
Loops == 1..10
LoopVert == <<1, 2, 3, 4, 3, 2, 5, 6, 7, 8>>
LoopFace == <<1, 1, 1, 2, 2, 2, 3, 3, 3, 3>>
LoopNext == <<2, 3, 1, 5, 6, 4, 8, 9, 10, 7>>
FaceLoops == << <<1, 2, 3>>, <<4, 5, 6>>, <<7, 8, 9, 10>> >>
LoopsOfVert == << <<1>>, <<2, 6>>, <<3, 5>>, <<4>>, <<7>>, <<8>>, <<9>>, <<10>> >>
\* the faces the brush reaches when it is applied to the triangles
TriFaces == {1, 2}
\* the corner UVs of the quad
QuadUV == [l \in 7..10 |-> <<(3 + (IF l \in {8, 9} THEN 1 ELSE 0)) * One,
                              (3 + (IF l \in {9, 10} THEN 1 ELSE 0)) * One>>]
LoopEdge(l) == {LoopVert[l], LoopVert[LoopNext[l]]}
SeamEdge == {2, 3}

\* BM_elem_flag_test(l->e, BM_ELEM_SEAM)
LoopOnSeam(s, l) == s.seam /\ LoopEdge(l) = SeamEdge

\* (intptr_t)(x * 16384.0): truncation toward zero
Trunc(x) == IF x >= 0 THEN x \div Sub ELSE -((-x) \div Sub)

uvsolver_calc_loop_key(s, l) == Trunc(s.luv[l][2]) * 16384 + Trunc(s.luv[l][1])

uvsolver_new(s, strength) ==
  [s EXCEPT !.solver = TRUE, !.strength = strength, !.keys = <<>>, !.verts = <<>>,
            !.fhash = <<>>, !.tris = <<>>, !.constraints = <<>>,
            !.totarea2d = <<0, 0>>, !.totarea3d = 0]

\* variant: the solver is left allocated
uvsolver_free_leak(s) == Emit(s, <<"uvsolver_free">>)

uvsolver_free(s) ==
  Emit([s EXCEPT !.solver = FALSE, !.keys = <<>>, !.verts = <<>>,
                 !.fhash = <<>>, !.tris = <<>>, !.constraints = <<>>,
                 !.totarea2d = <<0, 0>>, !.totarea3d = 0],
       <<"uvsolver_free">>)

\* a solver vertex as it is allocated for the loop that misses in vhash
NewVert(s, l) ==
  [uv |-> s.luv[l], v |-> LoopVert[l], pinned |-> FALSE, boundary |-> FALSE,
   ls |-> <<>>, neighbors |-> <<>>]

\* if (v->totloop < MAXUVLOOPS) v->ls[v->totloop++] = l
RegisterLoop(ls, l) == IF Len(ls) < MAXUVLOOPS THEN Append(ls, l) ELSE ls

\* the solver vertex of a loop and the solver after the lookup: [sv, s]
uvsolver_get_vert(s, l) ==
  With(uvsolver_calc_loop_key(s, l), LAMBDA pkey :
  With(IF \E i \in 1..Len(s.keys) : s.keys[i] = pkey
         THEN s
         ELSE [s EXCEPT !.keys = Append(@, pkey), !.verts = Append(@, NewVert(s, l))],
       LAMBDA s1 :
  With(CHOOSE i \in 1..Len(s1.keys) : s1.keys[i] = pkey, LAMBDA sv :
    [sv |-> sv,
     s |-> [s1 EXCEPT !.verts[sv].ls = RegisterLoop(@, l)]])))

\* a product of two coordinates as <<h, l>>, standing for h * One + l with 0 <= l < One
Mul2(a, b) ==
  With(<<a \div One, a % One, b \div One, b % One>>, LAMBDA d :
    <<d[1] * d[3] * One + d[1] * d[4] + d[2] * d[3] + ((d[2] * d[4]) \div One),
      (d[2] * d[4]) % One>>)

Add2(p, q) == <<p[1] + q[1] + ((p[2] + q[2]) \div One), (p[2] + q[2]) % One>>

\* twice area_tri_signed_v2_db, as <<h, l>>
Cross2(a, b, c) == Add2(Mul2(a[1] - b[1], b[2] - c[2]), Mul2(a[2] - b[2], c[1] - b[1]))

\* fabsf of a value held as <<h, l>>
Abs2(x) == IF x[1] >= 0 THEN x ELSE IF x[2] = 0 THEN <<-x[1], 0>> ELSE <<-x[1] - 1, One - x[2]>>

\* area_tri_v3 of the face's corners, in units of its own: the 3D positions are not modelled
Area3d(f) == f

\* twice the unsigned area is below AreaEps
AreaBelowEps(a, b, c) ==
  With(Cross2(a, b, c), LAMBDA x :
    \/ x[1] = 0 /\ x[2] < AreaEps
    \/ x[1] = -1 /\ One - x[2] < AreaEps)

Abs(x) == IF x < 0 THEN -x ELSE x

\* the do-while over the loops of the face: acc = [s, vs, oob, nocon]
RECURSIVE EnsureFaceLoop(_, _, _, _)
EnsureFaceLoop(acc, f, k, i) ==
  With(uvsolver_get_vert(acc.s, FaceLoops[f][k]), LAMBDA r :
  With([s |-> r.s,
        nocon |-> acc.nocon \/ LoopOnSeam(r.s, FaceLoops[f][k]),
        vs |-> IF i < 3 THEN [acc.vs EXCEPT ![i + 1] = r.sv] ELSE acc.vs,
        oob |-> IF i < 3 THEN acc.oob ELSE acc.oob \cup {i}], LAMBDA a :
    IF i > 3 \/ k = Len(FaceLoops[f])
      THEN a
      ELSE EnsureFaceLoop(a, f, k + 1, i + 1)))

\* if (area2d < 0.000001): the three solver vertices are pushed apart
EnsureFaceNudge(s, vs) ==
  IF AreaBelowEps(s.verts[vs[1]].uv, s.verts[vs[2]].uv, s.verts[vs[3]].uv)
    THEN With([s EXCEPT !.verts[vs[1]].uv = <<@[1] - Nudge, @[2] - Nudge>>], LAMBDA s1 :
         With([s1 EXCEPT !.verts[vs[2]].uv = <<@[1] + Nudge, @[2]>>], LAMBDA s2 :
           [s2 EXCEPT !.verts[vs[3]].uv = <<@[1], @[2] + Nudge>>]))
    ELSE s

\* an angle and an area constraint for each corner, unless nocon
EnsureFaceConstraints(s, f, vs, nocon) ==
  IF nocon THEN s
  ELSE [s EXCEPT !.constraints = @ \o
          [j \in 1..6 |->
             [type |-> IF (j % 2) = 1 THEN "CON_ANGLES" ELSE "CON_AREA",
              tri |-> f,
              vs |-> <<vs[((((j - 1) \div 2) + 2) % 3) + 1],
                       vs[((j - 1) \div 2) + 1],
                       vs[((((j - 1) \div 2) + 1) % 3) + 1]>>]]]

AddNeighbor(s, v1, v2) ==
  IF \/ \E j \in 1..Len(s.verts[v1].neighbors) : s.verts[v1].neighbors[j] = v2
     \/ Len(s.verts[v1].neighbors) >= MAXUVNEIGHBORS
     \/ Len(s.verts[v2].neighbors) >= MAXUVNEIGHBORS
    THEN s
    ELSE With([s EXCEPT !.verts[v1].neighbors = Append(@, v2)], LAMBDA s1 :
           [s1 EXCEPT !.verts[v2].neighbors = Append(@, v1)])

EnsureFaceNeighbors(s, vs) ==
  With(AddNeighbor(s, vs[1], vs[2]), LAMBDA s1 :
  With(AddNeighbor(s1, vs[2], vs[3]), LAMBDA s2 :
    AddNeighbor(s2, vs[3], vs[1])))

\* the triangle record of a face that misses in fhash
EnsureFaceNew(s, f) ==
    With([s EXCEPT !.fhash = Append(@, f)], LAMBDA s0 :
    With(EnsureFaceLoop([s |-> s0, vs |-> <<0, 0, 0>>, oob |-> {}, nocon |-> FALSE], f, 1, 0),
         LAMBDA a :
    With(Abs2(Cross2(a.s.verts[a.vs[1]].uv, a.s.verts[a.vs[2]].uv, a.s.verts[a.vs[3]].uv)),
         LAMBDA area2 :
    With(EnsureFaceNudge(a.s, a.vs), LAMBDA s1 :
    With([s1 EXCEPT !.tris = Append(@, [f |-> f, vs |-> a.vs, oob |-> a.oob,
                                        area2d |-> area2, area3d |-> Area3d(f)]),
                    !.totarea2d = Add2(@, area2),
                    !.totarea3d = @ + Area3d(f)],
         LAMBDA s2 :
    With(EnsureFaceConstraints(s2, f, a.vs, a.nocon), LAMBDA s3 :
      EnsureFaceNeighbors(s3, a.vs)))))))

\* variant: the face is not looked up in fhash first
uvsolver_ensure_face_unhashed(s, f) == EnsureFaceNew(s, f)

uvsolver_ensure_face(s, f) ==
  IF \E j \in 1..Len(s.fhash) : s.fhash[j] = f THEN s ELSE EnsureFaceNew(s, f)

\* BM_ITER_ELEM over the loops of the corner's vertex: acc = [s, lastv, ok, sum, tot2]
RECURSIVE BrushVertLoops(_, _, _)
BrushVertLoops(acc, v, k) ==
  IF k > Len(LoopsOfVert[v]) THEN acc
  ELSE
    With(LoopsOfVert[v][k], LAMBDA l2 :
    With(uvsolver_get_vert(acc.s, l2), LAMBDA r :
    With(acc.lastv # 0 /\ acc.lastv # r.sv, LAMBDA split :
    With(IF split
           THEN [r.s EXCEPT !.verts[acc.lastv].boundary = TRUE, !.verts[r.sv].boundary = TRUE]
           ELSE r.s, LAMBDA s1 :
    With(IF LoopOnSeam(s1, l2) THEN [s1 EXCEPT !.verts[r.sv].boundary = TRUE] ELSE s1,
         LAMBDA s2 :
    With([s |-> s2, lastv |-> r.sv,
          ok |-> acc.ok /\ ~split /\ ~LoopOnSeam(s1, l2),
          sum |-> <<acc.sum[1] + s2.luv[l2][1], acc.sum[2] + s2.luv[l2][2]>>,
          tot2 |-> acc.tot2 + 1], LAMBDA a :
      BrushVertLoops(a, v, k + 1)))))))

\* if (len_v2v2(luv->uv, uv) < 0.02) copy_v2_v2(luv->uv, uv), for the loops of the vertex
BrushSnapLoops(s, v, uv) ==
  [s EXCEPT !.luv =
     [l \in Loops |->
        IF /\ LoopVert[l] = v
           /\ Abs(@[l][1] - uv[1]) <= SnapLimit
           /\ Abs(@[l][2] - uv[2]) <= SnapLimit
           /\ 2500 * ((@[l][1] - uv[1]) * (@[l][1] - uv[1]) + (@[l][2] - uv[2]) * (@[l][2] - uv[2]))
                < One * One
          THEN uv ELSE @[l]]]

\* the body of the loop over the corners of a gathered face, for one corner
BrushCorner(s, l) ==
  With(BrushVertLoops([s |-> s, lastv |-> 0, ok |-> TRUE, sum |-> <<0, 0>>, tot2 |-> 0],
                      LoopVert[l], 1), LAMBDA a :
    IF a.ok /\ a.tot2 > 0
      THEN BrushSnapLoops(a.s, LoopVert[l], <<a.sum[1] \div a.tot2, a.sum[2] \div a.tot2>>)
      ELSE a.s)

RECURSIVE BrushCorners(_, _, _)
BrushCorners(s, f, k) ==
  IF k > Len(FaceLoops[f]) THEN s
  ELSE With(BrushCorner(s, FaceLoops[f][k]), LAMBDA s1 : BrushCorners(s1, f, k + 1))

\* the body of TGSET_ITER for a face that passes the brush test
sculpt_uv_brush_cb(s, f) ==
  With(Emit([s EXCEPT !.logged = @ \cup {f}], <<"BM_log_face_modified", f>>), LAMBDA s0 :
  With(uvsolver_ensure_face(s0, f), LAMBDA s1 :
    BrushCorners(s1, f, 1)))

\* a solver vertex is pinned when a face around its mesh vertex was not gathered
uvsolver_solve_begin(s) ==
  [Emit(s, <<"uvsolver_solve_begin">>) EXCEPT !.verts =
     [i \in 1..Len(@) |->
        [@[i] EXCEPT !.pinned =
           \E l \in Loops : /\ LoopVert[l] = s.verts[i].v
                            /\ ~\E j \in 1..Len(s.fhash) : s.fhash[j] = LoopFace[l]]]]

\* the neighbours that count for sv1, by position in its neighbour array
RelaxNeighbors(s, i) ==
  {j \in 1..Len(s.verts[i].neighbors) :
     ~(s.verts[i].boundary /\ ~s.verts[s.verts[i].neighbors[j]].boundary)}

RECURSIVE RelaxSum(_, _, _, _)
RelaxSum(s, i, J, c) ==
  IF J = {} THEN 0
  ELSE With(CHOOSE j \in J : TRUE, LAMBDA j :
         s.verts[s.verts[i].neighbors[j]].uv[c] + RelaxSum(s, i, J \ {j}, c))

\* one solver vertex is moved toward the mean of its neighbours; strength is 0 or 1
RelaxVert(s, i, strength) ==
  IF Len(s.verts[i].neighbors) = 0 \/ s.verts[i].pinned THEN s
  ELSE
    With(RelaxNeighbors(s, i), LAMBDA J :
      IF Cardinality(J) < 2 THEN s
      ELSE
        With(<<RelaxSum(s, i, J, 1) \div Cardinality(J), RelaxSum(s, i, J, 2) \div Cardinality(J)>>,
             LAMBDA uv :
          [s EXCEPT !.verts[i].uv = <<@[1] + (uv[1] - @[1]) * strength,
                                      @[2] + (uv[2] - @[2]) * strength>>]))

RECURSIVE RelaxVerts(_, _, _)
RelaxVerts(s, i, strength) ==
  IF i > Len(s.verts) THEN s
  ELSE With(RelaxVert(s, i, strength), LAMBDA s1 : RelaxVerts(s1, i + 1, strength))

\* the solver vertex whose value a loop receives: the last one that lists the loop
WriterOf(s, l) ==
  IF \E i \in 1..Len(s.verts) : \E j \in 1..Len(s.verts[i].ls) : s.verts[i].ls[j] = l
    THEN CHOOSE i \in 1..Len(s.verts) :
           /\ \E j \in 1..Len(s.verts[i].ls) : s.verts[i].ls[j] = l
           /\ \A i2 \in (i + 1)..Len(s.verts) :
                ~\E j \in 1..Len(s.verts[i2].ls) : s.verts[i2].ls[j] = l
    ELSE 0

\* "update real uvs": every loop of every solver vertex receives the vertex's uv
UpdateRealUVs(s) ==
  With([l \in Loops |-> WriterOf(s, l)], LAMBDA wr :
    [s EXCEPT !.luv = [l \in Loops |-> IF wr[l] = 0 THEN @[l] ELSE s.verts[wr[l]].uv],
              !.wrote = [l \in Loops |-> IF wr[l] = 0 THEN @[l] ELSE wr[l]]])

uvsolver_simple_relax(s, strength) ==
  With(RelaxVerts(s, 1, strength), LAMBDA s1 : UpdateRealUVs(s1))

\* strength -1: relaxation alone; strength 0: relaxation and constraint steps of size 0
uvsolver_solve_step(s) ==
  With(Emit(s, <<"uvsolver_solve_step">>), LAMBDA s0 :
    IF s0.strength < 0
      THEN uvsolver_simple_relax(s0, -s0.strength)
      ELSE With(uvsolver_simple_relax(s0, 0), LAMBDA s1 : UpdateRealUVs(s1)))

(* ----------------------------------------------------- UV solver: actions *)
\* the UVs a corner of the second triangle can start with
UVPoints == {<<u * One, v * One>> : u \in 1..MaxUV, v \in 0..1}
              \cup {<<0, One>>, <<0, Sub>>, <<One + 1, 0>>}

\* brush strengths for which the solve is computed exactly
Strengths == {-1, 0}

\* the sessions the brush can be applied to: with the last alone all entry guards pass
UVSessions == { [bm |-> FALSE, pbvh |-> "PBVH_FACES", cd_uv |-> 0],
                [bm |-> TRUE, pbvh |-> "PBVH_FACES", cd_uv |-> 0],
                [bm |-> TRUE, pbvh |-> "PBVH_BMESH", cd_uv |-> -1],
                [bm |-> TRUE, pbvh |-> "PBVH_BMESH", cd_uv |-> 0] }

UVMesh(luv, seam, ss) ==
  [luv |-> luv, seam |-> seam, solver |-> FALSE, strength |-> 0, keys |-> <<>>,
   verts |-> <<>>, fhash |-> <<>>, tris |-> <<>>, constraints |-> <<>>,
   totarea2d |-> <<0, 0>>, totarea3d |-> 0,
   logged |-> {}, wrote |-> [l \in Loops |-> 0], done |-> FALSE,
   bm |-> ss.bm, pbvh |-> ss.pbvh, cd_uv |-> ss.cd_uv, luv0 |-> luv, ev |-> <<>>]

\* the entry guards of SCULPT_uv_brush
UVBrushGuards(s) == s.bm /\ s.pbvh = "PBVH_BMESH" /\ s.cd_uv >= 0

\* for (int i = 0; i < 5; i++)
SolveIterations == 5

\* variant: no log entry is added
UVBrushEntry_unlogged(s, strength) == uvsolver_new(s, strength)

\* BM_log_entry_add_ex, then the solver is created with the brush strength
UVBrushEntry(s, strength) ==
  uvsolver_new(Emit(s, <<"BM_log_entry_add_ex">>), strength)

\* SCULPT_uv_brush up to the loop over the nodes, or its return at an entry guard
UVBrushBegin ==
  /\ pc = Idle
  /\ ~w.done
  /\ IF UVBrushGuards(w)
       THEN /\ \E strength \in Strengths : \E s \in {w} : w' = UVBrushEntry(s, strength)
            /\ pc' = [Idle EXCEPT !.at = "uv_gather"]
       ELSE /\ w' = [w EXCEPT !.done = TRUE]
            /\ pc' = Idle
  /\ UNCHANGED <<mods, cfg, last>>

\* a face of a node passes the brush test
UVBrushFace ==
  /\ pc.at = "uv_gather"
  /\ \E f \in TriFaces :
       /\ f \notin w.logged
       /\ \E s \in {w} : w' = sculpt_uv_brush_cb(s, f)
  /\ UNCHANGED <<mods, cfg, last, pc>>

UVSolveBegin ==
  /\ pc.at = "uv_gather"
  /\ \E s \in {w} : w' = uvsolver_solve_begin(s)
  /\ pc' = [pc EXCEPT !.at = "uv_solve", !.i = 0]
  /\ UNCHANGED <<mods, cfg, last>>

\* one iteration of the loop over uvsolver_solve_step
UVSolveStep ==
  /\ pc.at = "uv_solve"
  /\ pc.i < SolveIterations
  /\ \E s \in {w} : w' = uvsolver_solve_step(s)
  /\ pc' = [pc EXCEPT !.i = @ + 1]
  /\ UNCHANGED <<mods, cfg, last>>

UVBrushEnd ==
  /\ pc.at = "uv_solve"
  /\ pc.i = SolveIterations
  /\ \E s \in {w} : w' = [uvsolver_free(s) EXCEPT !.done = TRUE]
  /\ pc' = Idle
  /\ UNCHANGED <<mods, cfg, last>>

\* uvsolver_ensure_face applied to a face, registered or not
UVEnsureFace ==
  /\ pc.at = "uv_gather"
  /\ \E f \in TriFaces :
       /\ \E s \in {Begin(w)} : w' = uvsolver_ensure_face(s, f)
       /\ last' = Call("uvsolver_ensure_face", f, FALSE, {}, "none", Begin(w))
  /\ UNCHANGED <<mods, cfg, pc>>

InitUV ==
  /\ mods = <<>>
  /\ cfg \in {c \in Configs : ~c.background /\ c.DYNTOPO_CD_INTERP /\ c.DYNTOPO_DYNAMIC_TESS}
  /\ \E b \in [4..6 -> UVPoints], seam \in BOOLEAN, ss \in UVSessions :
       w = UVMesh([l \in Loops |->
                     IF l = 1 THEN <<0, 0>> ELSE IF l = 2 THEN <<One, 0>>
                     ELSE IF l = 3 THEN <<0, One>> ELSE IF l > 6 THEN QuadUV[l]
                     ELSE b[l]], seam, ss)
  /\ last = NoCall
  /\ pc = Idle

NextUV ==
  \/ UVBrushBegin
  \/ UVBrushFace
  \/ UVSolveBegin
  \/ UVSolveStep
  \/ UVBrushEnd

SpecUV == InitUV /\ [][NextUV]_vars

NextFace ==
  \/ UVBrushBegin
  \/ UVEnsureFace

SpecFace == InitUV /\ [][NextFace]_vars

(* ------------------------------------ uvsolver_ensure_face on any face *)
\* uvsolver_ensure_face applied to a face of the mesh, the quad included
UVEnsureAnyFace ==
  /\ pc.at = "uv_gather"
  /\ \E f \in 1..Len(FaceLoops) :
       /\ \E s \in {Begin(w)} : w' = uvsolver_ensure_face(s, f)
       /\ last' = Call("uvsolver_ensure_face", f, FALSE, {}, "none", Begin(w))
  /\ UNCHANGED <<mods, cfg, pc>>

NextQuad ==
  \/ UVBrushBegin
  \/ UVEnsureAnyFace

SpecQuad == InitUV /\ [][NextQuad]_vars

(* ------------------------------------- UV solver: a fan around one vertex *)
\* a mesh vertex with MaxFan triangles at most around it; loop f is the corner of
\* face f at the vertex, every such corner has the same UV and so the same key
MaxFan == 33

FanPoints == {<<0, 0>>, <<One \div 2, 0>>}

FanMesh(valence) ==
  [valence |-> valence, luv |-> [l \in 1..valence |-> <<0, 0>>],
   solver |-> FALSE, uv |-> <<0, 0>>, ls |-> <<>>, mapped |-> {},
   gathered |-> 0, steps |-> 0, ev |-> <<>>]

\* uvsolver_get_vert for a corner at the fan vertex: the lookup hits (or makes) the
\* one solver vertex, which is returned for the corner
FanGetVert(s, l) == [s EXCEPT !.ls = RegisterLoop(@, l), !.mapped = @ \cup {l}]

\* BM_ITER_ELEM (l2, &iter, l->v, BM_LOOPS_OF_VERT) with uvsolver_get_vert on each loop
RECURSIVE FanVertLoops(_, _)
FanVertLoops(s, k) ==
  IF k > s.valence THEN s
  ELSE With(FanGetVert(s, k), LAMBDA s1 : FanVertLoops(s1, k + 1))

\* sculpt_uv_brush_cb for face f: uvsolver_ensure_face registers the corner, then
\* the loop over the corners walks the loops of the corner's vertex
FanBrushFace(s, f) ==
  With(Emit(s, <<"BM_log_face_modified", f>>), LAMBDA s0 :
  With(FanGetVert(s0, f), LAMBDA s1 :
  With(FanVertLoops(s1, 1), LAMBDA s2 :
    [s2 EXCEPT !.gathered = f])))

\* "update real uvs" for the fan's solver vertex
FanUpdateRealUVs(s) ==
  [s EXCEPT !.luv = [l \in 1..s.valence |->
                       IF \E i \in 1..Len(s.ls) : s.ls[i] = l THEN s.uv ELSE @[l]]]

\* a solve step that leaves the solver vertex at uv
FanSolveStep(s, uv) ==
  With([Emit(s, <<"uvsolver_solve_step">>) EXCEPT !.uv = uv, !.steps = @ + 1], LAMBDA s1 :
    FanUpdateRealUVs(s1))

FanBegin ==
  /\ pc = Idle
  /\ ~w.solver /\ w.steps = 0
  /\ w' = [w EXCEPT !.solver = TRUE]
  /\ pc' = [Idle EXCEPT !.at = "uv_gather"]
  /\ last' = Call("SCULPT_uv_brush", <<>>, FALSE, {}, "none", <<>>)
  /\ UNCHANGED <<mods, cfg>>

\* the faces of the fan are visited in order; the brush covers the first of them
FanGather ==
  /\ pc.at = "uv_gather"
  /\ w.gathered < w.valence
  /\ \E s \in {w} : w' = FanBrushFace(s, w.gathered + 1)
  /\ last' = Call("sculpt_uv_brush_cb", <<w.gathered + 1>>, FALSE, {}, "none", <<>>)
  /\ UNCHANGED <<mods, cfg, pc>>

FanSolveBegin ==
  /\ pc.at = "uv_gather"
  /\ w.gathered > 0
  /\ w' = Emit(w, <<"uvsolver_solve_begin">>)
  /\ pc' = [pc EXCEPT !.at = "uv_solve"]
  /\ last' = Call("uvsolver_solve_begin", <<>>, FALSE, {}, "none", <<>>)
  /\ UNCHANGED <<mods, cfg>>

\* the vertex is pinned, and stays, unless every face around it was gathered
FanStep ==
  /\ pc.at = "uv_solve"
  /\ w.steps < SolveIterations
  /\ \E uv \in (IF w.gathered = w.valence THEN FanPoints ELSE {w.uv}) :
       \E s \in {w} : w' = FanSolveStep(s, uv)
  /\ last' = Call("uvsolver_solve_step", <<>>, FALSE, {}, "none", <<>>)
  /\ UNCHANGED <<mods, cfg, pc>>

FanEnd ==
  /\ pc.at = "uv_solve"
  /\ w.steps = SolveIterations
  /\ w' = [Emit(w, <<"uvsolver_free">>) EXCEPT !.solver = FALSE, !.ls = <<>>, !.mapped = {}]
  /\ pc' = Idle
  /\ last' = Call("uvsolver_free", <<>>, FALSE, {}, "none", <<>>)
  /\ UNCHANGED <<mods, cfg>>

InitFan ==
  /\ mods = <<>>
  /\ cfg \in {c \in Configs : ~c.background /\ c.DYNTOPO_CD_INTERP /\ c.DYNTOPO_DYNAMIC_TESS}
  /\ \E valence \in 3..MaxFan : w = FanMesh(valence)
  /\ last = NoCall
  /\ pc = Idle

NextFan ==
  \/ FanBegin
  \/ FanGather
  \/ FanSolveBegin
  \/ FanStep
  \/ FanEnd

SpecFan == InitFan /\ [][NextFan]_vars

(* ------------------------------------------- UV brush: the loop over the nodes *)
\* the PBVH nodes handed to the brush: one per face of the mesh
UVNodes == TriFaces

\* settings->use_threading = use_threading && totnode > 1
BKE_pbvh_parallel_range_settings(use_threading, totnode) ==
  [use_threading |-> use_threading /\ totnode > 1]

\* variant: the brush asks for a threaded loop
UVBrushRangeSettings_threaded(totnode) == BKE_pbvh_parallel_range_settings(TRUE, totnode)

\* "for now, be single-threaded"
UVBrushRangeSettings(totnode) == BKE_pbvh_parallel_range_settings(FALSE, totnode)

\* a callback has been entered and has not returned
TaskRunning(s, n) == s.tasks[n] \in {"entered", "gathered"}

\* BLI_task_parallel_range may enter the callback of node n: without threading the
\* calls are made one after the other in index order by the calling thread
TaskMayStart(s, n) ==
  /\ s.tasks[n] = "todo"
  /\ ~s.settings.use_threading =>
       /\ \A m \in UVNodes : ~TaskRunning(s, m)
       /\ \A m \in 1..(n - 1) : s.tasks[m] = "done"

\* SCULPT_uv_brush up to BLI_task_parallel_range, or its return at an entry guard
UVTasksBegin ==
  /\ pc = Idle
  /\ ~w.done
  /\ IF UVBrushGuards(w)
       THEN /\ \E strength \in Strengths : \E s \in {w} :
                 w' = [UVBrushEntry(s, strength) EXCEPT
                         !.settings = UVBrushRangeSettings(Cardinality(UVNodes))]
            /\ pc' = [Idle EXCEPT !.at = "uv_tasks"]
       ELSE /\ w' = [w EXCEPT !.done = TRUE]
            /\ pc' = Idle
  /\ UNCHANGED <<mods, cfg, last>>

\* sculpt_uv_brush_cb is entered for a node
UVTaskEnter ==
  /\ pc.at = "uv_tasks"
  /\ \E n \in UVNodes :
       /\ TaskMayStart(w, n)
       /\ w' = [Emit(w, <<"sculpt_uv_brush_cb", n>>) EXCEPT !.tasks[n] = "entered"]
  /\ UNCHANGED <<mods, cfg, last, pc>>

\* the face of the node fails the brush test: the callback returns
UVTaskSkip ==
  /\ pc.at = "uv_tasks"
  /\ \E n \in UVNodes :
       /\ w.tasks[n] = "entered"
       /\ w' = [w EXCEPT !.tasks[n] = "done"]
  /\ UNCHANGED <<mods, cfg, last, pc>>

\* the face passes: BM_log_face_modified and uvsolver_ensure_face
UVTaskFace ==
  /\ pc.at = "uv_tasks"
  /\ \E n \in UVNodes :
       /\ w.tasks[n] = "entered"
       /\ \E s \in {Emit([w EXCEPT !.logged = @ \cup {n}], <<"BM_log_face_modified", n>>)} :
            w' = [uvsolver_ensure_face(s, n) EXCEPT !.tasks[n] = "gathered"]
  /\ UNCHANGED <<mods, cfg, last, pc>>

\* the loop over the corners of the face, then the callback returns
UVTaskCorners ==
  /\ pc.at = "uv_tasks"
  /\ \E n \in UVNodes :
       /\ w.tasks[n] = "gathered"
       /\ \E s \in {w} : w' = [BrushCorners(s, n, 1) EXCEPT !.tasks[n] = "done"]
  /\ UNCHANGED <<mods, cfg, last, pc>>

\* BLI_task_parallel_range returns when every callback has returned
UVTasksJoin ==
  /\ pc.at = "uv_tasks"
  /\ \A n \in UVNodes : w.tasks[n] = "done"
  /\ \E s \in {w} : w' = uvsolver_solve_begin(s)
  /\ pc' = [pc EXCEPT !.at = "uv_solve", !.i = 0]
  /\ UNCHANGED <<mods, cfg, last>>

\* the brush's world with the state of the loop over the nodes
UVTaskMesh(luv, seam, ss) ==
  UVMesh(luv, seam, ss) @@
    [tasks |-> [n \in UVNodes |-> "todo"], settings |-> [use_threading |-> FALSE]]

InitTasks ==
  /\ mods = <<>>
  /\ cfg \in {c \in Configs : ~c.background /\ c.DYNTOPO_CD_INTERP /\ c.DYNTOPO_DYNAMIC_TESS}
  /\ \E b \in [4..6 -> UVPoints], seam \in BOOLEAN, ss \in UVSessions :
       w = UVTaskMesh([l \in Loops |->
                         IF l = 1 THEN <<0, 0>> ELSE IF l = 2 THEN <<One, 0>>
                         ELSE IF l = 3 THEN <<0, One>> ELSE IF l > 6 THEN QuadUV[l]
                         ELSE b[l]], seam, ss)
  /\ last = NoCall
  /\ pc = Idle

NextTasks ==
  \/ UVTasksBegin
  \/ UVTaskEnter
  \/ UVTaskSkip
  \/ UVTaskFace
  \/ UVTaskCorners
  \/ UVTasksJoin
  \/ UVSolveStep
  \/ UVBrushEnd

SpecTasks == InitTasks /\ [][NextTasks]_vars

(* ------------------------------ persistent base across cycles: specification *)
\* the vertex counts the mesh can be edited to while dynamic topology is off
MeshVertCounts == MaxSides..(MaxSides + 2)

\* the mesh is edited outside sculpt mode's dynamic topology: vertices come and go
MeshEditVerts ==
  /\ pc = Idle
  /\ ~w.bm
  /\ \E n \in MeshVertCounts \ {w.me_totvert} :
       /\ w' = [Begin(w) EXCEPT !.me_totvert = n]
       /\ last' = Call("mesh_edit", <<n>>, FALSE, {}, "none", Begin(w))
  /\ UNCHANGED <<mods, cfg, pc>>

InitPersist ==
  /\ mods = <<>>
  /\ cfg \in {c \in Configs : ~c.background /\ c.DYNTOPO_CD_INTERP}
  /\ w = StaticObject(MaxSides, <<MaxSides>>, <<>>, <<>>)
  /\ last = NoCall
  /\ pc = Idle

NextPersist ==
  \/ ToggleExec
  \/ EnsureTemplayer
  \/ MeshEditVerts

SpecPersist == InitPersist /\ [][NextPersist]_vars

(* ------------------------------------------------------- cotangent weights *)
\* floats are held as exact fractions <<n, d>> with d >= 0: <<1, 0>> and <<-1, 0>>
\* are the infinities and <<0, 0>> is NaN; rounding is left out
MaxScale == 2

RECURSIVE GCD(_, _)
GCD(a, b) == IF b = 0 THEN a ELSE GCD(b, a % b)

Sign(x) == IF x > 0 THEN 1 ELSE IF x < 0 THEN -1 ELSE 0

Rat(n, d) ==
  IF d = 0 THEN <<Sign(n), 0>>
  ELSE With(GCD(Abs(n), Abs(d)), LAMBDA g : <<(Sign(d) * n) \div g, Abs(d) \div g>>)

RAdd(a, b) == Rat(a[1] * b[2] + b[1] * a[2], a[2] * b[2])
RMul(a, b) == Rat(a[1] * b[1], a[2] * b[2])
RDiv(a, b) == Rat(a[1] * b[2], a[2] * b[1])
RFinite(a) == a[2] # 0

\* vectors of the plane z = 0, with integer coordinates
VSub(a, b) == <<a[1] - b[1], a[2] - b[2]>>
VDot(a, b) == a[1] * b[1] + a[2] * b[2]
VCross(a, b) == a[1] * b[2] - a[2] * b[1]

\* the cotangent of the angle at v1, 0 for a degenerate triangle
cotangent_tri_weight_v3(v1, v2, v3) ==
  IF Abs(VCross(VSub(v2, v1), VSub(v3, v1))) > 0
    THEN Rat(VDot(VSub(v2, v1), VSub(v3, v1)), Abs(VCross(VSub(v2, v1), VSub(v3, v1))))
    ELSE <<0, 1>>

area_tri_v3(p, q, r) == Rat(Abs(VCross(VSub(q, p), VSub(r, p))), 2)

\* the angle of the triangle at a exceeds pi / 2
Obtuse(a, b, c) == VDot(VSub(b, a), VSub(c, a)) < 0

tri_voronoi_area(p, q, r) ==
  IF Obtuse(p, q, r) THEN RDiv(area_tri_v3(p, q, r), <<2, 1>>)
  ELSE IF Obtuse(q, r, p) \/ Obtuse(r, p, q) THEN RDiv(area_tri_v3(p, q, r), <<4, 1>>)
  ELSE RMul(<<1, 8>>,
            RAdd(RMul(<<VDot(VSub(p, r), VSub(p, r)), 1>>, cotangent_tri_weight_v3(q, p, r)),
                 RMul(<<VDot(VSub(p, q), VSub(p, q)), 1>>, cotangent_tri_weight_v3(r, q, p))))

\* the vertex sits at the origin; ring[i] is the far end of its i-th edge in disk order
Origin == <<0, 0>>
RingPrev(ring, i) == ring[((i + Len(ring) - 2) % Len(ring)) + 1]
RingNext(ring, i) == ring[(i % Len(ring)) + 1]

\* cot1, cot2 and area of one turn of the loop
Wedge(ring, i) ==
  [cot1 |-> cotangent_tri_weight_v3(RingPrev(ring, i), Origin, ring[i]),
   cot2 |-> cotangent_tri_weight_v3(RingNext(ring, i), ring[i], Origin),
   area |-> tri_voronoi_area(Origin, RingPrev(ring, i), ring[i])]

RECURSIVE RSum(_, _)
RSum(xs, n) == IF n = 0 THEN <<0, 1>> ELSE RAdd(RSum(xs, n - 1), xs[n])

\* a buffer with its first entries replaced
Store(buf, vals) == [i \in 1..Len(buf) |-> IF i <= Len(vals) THEN vals[i] ELSE buf[i]]

\* the loop over the edges, the optional outputs, the division and the scaling
CotangentsCompute(s) ==
  With([i \in 1..Len(s.ring) |-> Wedge(s.ring, i)], LAMBDA wd :
  With([i \in 1..Len(wd) |-> RAdd(wd[i].cot1, wd[i].cot2)], LAMBDA ws :
  With(RSum([i \in 1..Len(wd) |-> wd[i].area], Len(wd)), LAMBDA totarea :
  With(RDiv(<<1, 1>>, RMul(totarea, <<2, 1>>)), LAMBDA mul :
    Emit([s EXCEPT
            !.r_ws = Store(@, [i \in 1..Len(ws) |-> RMul(ws[i], mul)]),
            !.r_cot1 = IF "r_cot1" \in s.outs THEN Store(@, [i \in 1..Len(wd) |-> wd[i].cot1]) ELSE @,
            !.r_cot2 = IF "r_cot2" \in s.outs THEN Store(@, [i \in 1..Len(wd) |-> wd[i].cot2]) ELSE @,
            !.r_area = IF "r_area" \in s.outs THEN Store(@, [i \in 1..Len(wd) |-> wd[i].area]) ELSE @,
            !.r_totarea = IF "r_totarea" \in s.outs THEN totarea ELSE @],
         <<"divide", RMul(totarea, <<2, 1>>)>>)))))

SCULPT_faces_get_cotangents(s, v) ==
  With(Emit(s, <<"SCULPT_faces_get_cotangents", v>>), LAMBDA s1 : CotangentsCompute(s1))

SCULPT_dyntopo_get_cotangents(s, v) ==
  With(Emit(s, <<"SCULPT_dyntopo_get_cotangents", v>>), LAMBDA s0 :
  With(CotangentsEntry(s0, v), LAMBDA s1 :
    IF Len(s1.ring) = 0 THEN s1 ELSE CotangentsCompute(s1)))

\* variant: the grids case falls through to the static-mesh engine
SCULPT_get_cotangents_fallthrough(s, v) ==
  CASE s.pbvh = "PBVH_BMESH" -> SCULPT_dyntopo_get_cotangents(s, v)
    [] s.pbvh = "PBVH_FACES" -> SCULPT_faces_get_cotangents(s, v)
    [] s.pbvh = "PBVH_GRIDS" -> SCULPT_faces_get_cotangents(s, v)
    [] OTHER -> s

SCULPT_get_cotangents(s, v) ==
  CASE s.pbvh = "PBVH_BMESH" -> SCULPT_dyntopo_get_cotangents(s, v)
    [] s.pbvh = "PBVH_FACES" -> SCULPT_faces_get_cotangents(s, v)
    [] s.pbvh = "PBVH_GRIDS" ->
         [s EXCEPT !.r_ws = Store(@, [i \in 1..Len(s.ring) |-> <<1, 1>>])]
    [] OTHER -> s

(* ---------------------------------------------- cotangent weights: actions *)
\* rings of neighbours at unit scale: a square, the eight grid neighbours, three
\* neighbours with obtuse wedges, three on a line, three on the vertex, none
RingShapes == { << <<1, 0>>, <<0, 1>>, <<-1, 0>>, <<0, -1>> >>,
                << <<1, 0>>, <<1, 1>>, <<0, 1>>, <<-1, 1>>,
                   <<-1, 0>>, <<-1, -1>>, <<0, -1>>, <<1, -1>> >>,
                << <<1, 0>>, <<-1, 1>>, <<-1, -1>> >>,
                << <<1, 0>>, <<2, 0>>, <<3, 0>> >>,
                << <<0, 0>>, <<0, 0>>, <<0, 0>> >>,
                << >> }

Scaled(ring, k) == [i \in 1..Len(ring) |-> <<k * ring[i][1], k * ring[i][2]>>]

Rings == {Scaled(ring, k) : ring \in RingShapes, k \in 1..MaxScale}

\* what the output arrays hold before the call
Garbage == <<7, 1>>

WeightSession(pbvh, ring, sort, outs) ==
  [pbvh |-> pbvh, ring |-> ring, outs |-> outs,
   bm_vdata |-> <<Layer("CD_DYNTOPO_VERT", "", TRUE)>>, cd_dyn_vert |-> 0,
   bm_sort |-> <<sort>>,
   r_ws |-> [i \in 1..8 |-> Garbage], r_cot1 |-> [i \in 1..8 |-> Garbage],
   r_cot2 |-> [i \in 1..8 |-> Garbage], r_area |-> [i \in 1..8 |-> Garbage],
   r_totarea |-> Garbage, ev |-> <<>>]

GetCotangents ==
  /\ pc = Idle
  /\ \E s \in {Begin(w)} : w' = SCULPT_get_cotangents(s, 1)
  /\ last' = Call("SCULPT_get_cotangents", <<1>>, FALSE, {}, "none", Begin(w))
  /\ UNCHANGED <<mods, cfg, pc>>

\* BKE_pbvh_bmesh_flag_all_disk_sort, for the one vertex of the session
WeightsFlagDiskSort ==
  /\ pc = Idle
  /\ w.pbvh = "PBVH_BMESH"
  /\ w' = [Begin(w) EXCEPT !.bm_sort = <<TRUE>>]
  /\ last' = Call("flag_all_disk_sort", <<>>, FALSE, {}, "none", Begin(w))
  /\ UNCHANGED <<mods, cfg, pc>>

InitWeights ==
  /\ mods = <<>>
  /\ cfg \in {c \in Configs : ~c.background /\ c.DYNTOPO_CD_INTERP /\ c.DYNTOPO_DYNAMIC_TESS}
  /\ \E pbvh \in {"PBVH_BMESH", "PBVH_FACES", "PBVH_GRIDS"}, ring \in Rings,
        outs \in {{}, {"r_cot1", "r_cot2", "r_area", "r_totarea"}} :
       w = WeightSession(pbvh, ring, pbvh = "PBVH_BMESH", outs)
  /\ last = NoCall
  /\ pc = Idle

NextWeights ==
  \/ GetCotangents
  \/ WeightsFlagDiskSort

SpecWeights == InitWeights /\ [][NextWeights]_vars

(* --------------------------------------- vertex parent: give_parvert *)
\* the threads that evaluate children of one edit-mesh parent
MaxThreads == 2

\* the edits that mark the vertex table dirty
MaxEdits == 2

Threads == 1..MaxThreads

\* em->bm->totvert
ParentVerts == 2

\* the parent: the BM_VERT bit of em->bm->elem_table_dirty, the vertex table
\* ("stale" after an edit, "rebuilding" inside BM_mesh_elem_table_ensure, "valid"
\* after it), the owner of vparent_lock (0: free), each thread's place in
\* give_parvert, the number of rebuilds and of edits, and whether the evaluated
\* mesh carries edit_data->vertexCos
ParentMesh(cos) ==
  [dirty |-> TRUE, table |-> "stale", lock |-> 0,
   tpc |-> [t \in Threads |-> "start"],
   rebuilds |-> 0, edits |-> 1, vertexCos |-> cos, ev |-> <<>>]

\* the values the unlocked test of elem_table_dirty can yield: the test is not
\* ordered with the stores of a rebuild in flight on another thread, so it can
\* see the bit before or after it is cleared
UnlockedDirty(s) == IF s.table = "rebuilding" THEN {TRUE, FALSE} ELSE {s.dirty}

\* BM_mesh_elem_table_ensure: the table is filled, then the dirty bit is cleared
BM_mesh_elem_table_ensure(s) == [s EXCEPT !.table = "valid", !.dirty = FALSE]

\* if (em->bm->elem_table_dirty & BM_VERT), outside the lock
ParvertTest ==
  /\ pc = Idle
  /\ \E t \in Threads :
       /\ w.tpc[t] = "start"
       /\ \E d \in UnlockedDirty(w) :
            /\ w' = [w EXCEPT !.tpc[t] = IF d THEN "lock" ELSE "read"]
            /\ last' = Call("test_dirty", <<t>>, d, {}, "none", w)
  /\ UNCHANGED <<mods, cfg, pc>>

\* BLI_mutex_lock(&vparent_lock)
ParvertLock ==
  /\ pc = Idle
  /\ \E t \in Threads :
       /\ w.tpc[t] = "lock"
       /\ w.lock = 0
       /\ w' = [w EXCEPT !.lock = t, !.tpc[t] = "retest"]
       /\ last' = Call("BLI_mutex_lock", <<t>>, FALSE, {}, "none", w)
  /\ UNCHANGED <<mods, cfg, pc>>

\* the second test, inside the lock, finds the bit set: the rebuild starts
ParvertEnsureBegin ==
  /\ pc = Idle
  /\ \E t \in Threads :
       /\ w.tpc[t] = "retest"
       /\ w.dirty
       /\ w' = [w EXCEPT !.table = "rebuilding", !.rebuilds = @ + 1, !.tpc[t] = "ensure"]
       /\ last' = Call("BM_mesh_elem_table_ensure", <<t>>, FALSE, {}, "none", w)
  /\ UNCHANGED <<mods, cfg, pc>>

\* the rebuild ends
ParvertEnsureEnd ==
  /\ pc = Idle
  /\ \E t \in Threads :
       /\ w.tpc[t] = "ensure"
       /\ \E s \in {BM_mesh_elem_table_ensure(w)} : w' = [s EXCEPT !.tpc[t] = "unlock"]
       /\ last' = Call("ensure_end", <<t>>, FALSE, {}, "none", w)
  /\ UNCHANGED <<mods, cfg, pc>>

\* the second test finds the bit clear: another thread has rebuilt the table
ParvertEnsureSkip ==
  /\ pc = Idle
  /\ \E t \in Threads :
       /\ w.tpc[t] = "retest"
       /\ ~w.dirty
       /\ w' = [w EXCEPT !.tpc[t] = "unlock"]
       /\ last' = Call("ensure_skip", <<t>>, FALSE, {}, "none", w)
  /\ UNCHANGED <<mods, cfg, pc>>

\* BLI_mutex_unlock(&vparent_lock)
ParvertUnlock ==
  /\ pc = Idle
  /\ \E t \in Threads :
       /\ w.tpc[t] = "unlock"
       /\ w' = [w EXCEPT !.lock = 0, !.tpc[t] = "read"]
       /\ last' = Call("BLI_mutex_unlock", <<t>>, FALSE, {}, "none", w)
  /\ UNCHANGED <<mods, cfg, pc>>

\* if (nr < numVerts): the position comes from vertexCos when the evaluated mesh
\* has it, else from BM_vert_at_index(em->bm, nr)
ParvertRead ==
  /\ pc = Idle
  /\ \E t \in Threads, nr \in 0..ParentVerts :
       /\ w.tpc[t] = "read"
       /\ w' = [w EXCEPT !.tpc[t] = "done"]
       /\ last' = Call(IF nr >= ParentVerts THEN "no_vertex"
                       ELSE IF w.vertexCos THEN "vertexCos" ELSE "BM_vert_at_index",
                       <<t, nr>>, FALSE, {}, "none", w)
  /\ UNCHANGED <<mods, cfg, pc>>

\* the thread evaluates its next child of the same parent
ParvertNext ==
  /\ pc = Idle
  /\ \E t \in Threads :
       /\ w.tpc[t] = "done"
       /\ w' = [w EXCEPT !.tpc[t] = "start"]
       /\ last' = Call("give_parvert", <<t>>, FALSE, {}, "none", w)
  /\ UNCHANGED <<mods, cfg, pc>>

\* between evaluations an edit of the parent marks the table dirty again
ParentEdit ==
  /\ pc = Idle
  /\ \A t \in Threads : w.tpc[t] \in {"start", "done"}
  /\ w.edits < MaxEdits
  /\ w' = [w EXCEPT !.dirty = TRUE, !.table = "stale", !.edits = @ + 1]
  /\ last' = Call("edit", <<>>, FALSE, {}, "none", w)
  /\ UNCHANGED <<mods, cfg, pc>>

InitParvert ==
  /\ mods = <<>>
  /\ cfg \in {c \in Configs : ~c.background /\ c.DYNTOPO_CD_INTERP /\ c.DYNTOPO_DYNAMIC_TESS}
  /\ \E cos \in BOOLEAN : w = ParentMesh(cos)
  /\ last = NoCall
  /\ pc = Idle

NextParvert ==
  \/ ParvertTest
  \/ ParvertLock
  \/ ParvertEnsureBegin
  \/ ParvertEnsureEnd
  \/ ParvertEnsureSkip
  \/ ParvertUnlock
  \/ ParvertRead
  \/ ParvertNext
  \/ ParentEdit

SpecParvert == InitParvert /\ [][NextParvert]_vars

(* ------------------------------- compositor: shader compile units *)
\* the shader nodes of one compile unit, at most
MaxNodes == 3

\* the nesting of compile_and_evaluate_shader_compile_unit that is followed
MaxDepth == 5

\* the number of output images a shader can have
MaxShaderOutputs == 8

\* a shader node: ext outputs are linked to nodes that are never in the unit, fwd
\* outputs are linked to the next shader node of the schedule only
ShaderNodes == [ext : {0, 3, 5, 9}, fwd : {0, 1}]

\* compute_shader_node_operation_outputs_count: the outputs of the node that are
\* linked outside the unit; unit is a sequence of positions in nodes
OutputsCount(nodes, unit, i) ==
  nodes[unit[i]].ext
    + (IF \E j \in 1..Len(unit) : unit[j] = unit[i] + 1 THEN 0 ELSE nodes[unit[i]].fwd)

\* number_of_outputs after the first i nodes of the unit
RECURSIVE NumberOfOutputs(_, _, _)
NumberOfOutputs(nodes, unit, i) ==
  IF i = 0 THEN 0 ELSE NumberOfOutputs(nodes, unit, i - 1) + OutputsCount(nodes, unit, i)

\* the loop leaves by the split when number_of_outputs passes the limit at some node
Surpassed(nodes, unit) ==
  \E i \in 1..Len(unit) : NumberOfOutputs(nodes, unit, i) > MaxShaderOutputs

\* compile_unit.as_span().take_front(n) and drop_front(n)
take_front(unit, n) == SubSeq(unit, 1, n)

drop_front(unit, n) == SubSeq(unit, n + 1, Len(unit))

\* a schedule whose shader nodes are all in the unit of the compile state, and one
\* call of compile_and_evaluate_shader_compile_unit at its entry; each call on the
\* stack holds the unit it was entered with
CompileState(nodes) ==
  [nodes |-> nodes, unit |-> [i \in 1..Len(nodes) |-> i],
   stack |-> << [at |-> "entry", unit |-> [i \in 1..Len(nodes) |-> i], rest |-> <<>>] >>,
   operations |-> <<>>, ev |-> <<>>]

Top(s) == s.stack[Len(s.stack)]

Pop(s) == [s EXCEPT !.stack = SubSeq(@, 1, Len(@) - 1)]

\* the top call becomes fr and calls itself on the unit of the compile state
Recurse(s, fr) ==
  [s EXCEPT !.stack = Append(SubSeq(@, 1, Len(@) - 1), fr)
                        \o << [at |-> "entry", unit |-> s.unit, rest |-> <<>>] >>]

\* the limit is surpassed: the unit is split at size / 2 and the first call is made
CompileSplit ==
  /\ pc = Idle
  /\ w.stack # <<>>
  /\ Top(w).at = "entry"
  /\ Surpassed(w.nodes, w.unit)
  /\ Len(w.stack) < MaxDepth
  /\ \E split_index \in {Len(w.unit) \div 2} :
       w' = Recurse([w EXCEPT !.unit = take_front(w.unit, split_index)],
                    [at |-> "start_done", unit |-> w.unit,
                     rest |-> drop_front(w.unit, split_index)])
  /\ last' = Call("split", w.unit, FALSE, {}, "none", w)
  /\ UNCHANGED <<mods, cfg, pc>>

\* the first call has returned: the second is made on the end unit
CompileSecond ==
  /\ pc = Idle
  /\ w.stack # <<>>
  /\ Top(w).at = "start_done"
  /\ w' = Recurse([w EXCEPT !.unit = Top(w).rest], [Top(w) EXCEPT !.at = "end_done"])
  /\ last' = Call("second", Top(w).rest, FALSE, {}, "none", w)
  /\ UNCHANGED <<mods, cfg, pc>>

\* the second call has returned: return
CompileReturn ==
  /\ pc = Idle
  /\ w.stack # <<>>
  /\ Top(w).at = "end_done"
  /\ w' = Pop(w)
  /\ last' = Call("return", <<>>, FALSE, {}, "none", w)
  /\ UNCHANGED <<mods, cfg, pc>>

\* the loop ends without a split: the ShaderOperation is made of the unit and
\* evaluated, and the unit of the compile state is reset
CompileOperation ==
  /\ pc = Idle
  /\ w.stack # <<>>
  /\ Top(w).at = "entry"
  /\ ~Surpassed(w.nodes, w.unit)
  /\ \E s \in {Pop(w)} :
       w' = [s EXCEPT !.operations = Append(@, w.unit), !.unit = <<>>]
  /\ last' = Call("ShaderOperation", w.unit, FALSE, {}, "none", w)
  /\ UNCHANGED <<mods, cfg, pc>>

InitCompile ==
  /\ mods = <<>>
  /\ cfg \in {c \in Configs : ~c.background /\ c.DYNTOPO_CD_INTERP /\ c.DYNTOPO_DYNAMIC_TESS}
  /\ \E nodes \in SeqsUpTo(ShaderNodes, MaxNodes) \ {<<>>} : w = CompileState(nodes)
  /\ last = NoCall
  /\ pc = Idle

NextCompile ==
  \/ CompileSplit
  \/ CompileSecond
  \/ CompileReturn
  \/ CompileOperation

SpecCompile == InitCompile /\ [][NextCompile]_vars

(* ====================================================== properties: C1-C4 *)
HasEvent(s, name) == \E i \in 1..Len(s.ev) : s.ev[i][1] = name

EnabledMultires(m) == \E i \in 1..Len(m) : m[i].type = "Multires" /\ m[i].realtime

\* C1: On an object with an enabled multires modifier and a Static session, every
\* entry point of the toggle operator (invoke and exec) reports the multires
\* conflict and leaves the session Static: no boundary-rep mesh, no undo log, and
\* ME_SCULPT_DYNAMIC_TOPOLOGY clear.
C1_EntryPointsBlockMultires ==
  (last.op \in {"invoke", "exec"} /\ ~last.pre.bm /\ EnabledMultires(mods))
    => (/\ last.popup = "dyntopo_error_popup"
        /\ ~w.bm /\ ~w.bm_log /\ ~w.me_dyntopo)

\* C2: SCULPT_dynamic_topology_check returns a flag set containing
\* DYNTOPO_ERROR_MULTIRES whenever the modifier list holds a realtime-enabled
\* multires modifier, at any position and after any enabled modifiers.
C2_CheckFindsMultires ==
  (last.op = "check" /\ EnabledMultires(mods)) => "DYNTOPO_ERROR_MULTIRES" \in last.flag

\* a disable transition that ran on a boundary-rep mesh
Disabled == last.op \in {"exec", "disable_with_undo", "disable_ex"} /\ last.pre.bm

\* C3 (as claimed): an enable followed by a disable leaves the mesh's vertex count
\* and face count as they were before the enable, for every input mesh, faces with
\* more than 3 sides included.
C3_RoundTripKeepsCounts ==
  Disabled => (w.me_totvert = w.snap.totvert /\ Len(w.me_faces) = Len(w.snap.faces))

AllTriangles(faces) == \A i \in 1..Len(faces) : faces[i] = 3

\* C3 (amended): an enable followed by a disable leaves the vertex count unchanged
\* for every input mesh, and the face count unchanged when the build skips the
\* triangulation (DYNTOPO_DYNAMIC_TESS) or every face of the mesh is a triangle.
C3_RoundTripKeepsCountsUnlessTriangulated ==
  Disabled =>
    (/\ w.me_totvert = w.snap.totvert
     /\ (cfg.DYNTOPO_DYNAMIC_TESS \/ AllTriangles(w.snap.faces))
          => Len(w.me_faces) = Len(w.snap.faces))

\* a round trip of a mesh with a quad in a build that does not triangulate
C3_Witness ==
  /\ Disabled
  /\ cfg.DYNTOPO_DYNAMIC_TESS
  /\ ~AllTriangles(w.snap.faces)
  /\ Len(w.me_faces) = Len(w.snap.faces)

\* C4: a disable requested while ss->bm is NULL never touches the boundary-rep
\* mesh: sculpt_dynamic_topology_disable_with_undo changes nothing and pushes no
\* undo entry; SCULPT_dynamic_topology_disable_ex skips the persistent-base
\* rebuild and the mesh free, frees the undo log if there is one, and ends with
\* ss->bm NULL, ss->bm_log NULL and ME_SCULPT_DYNAMIC_TOPOLOGY clear.
C4_DisableWithoutBMesh ==
  /\ (last.op = "disable_with_undo" /\ ~last.pre.bm) => w = last.pre
  /\ (last.op = "disable_ex" /\ ~last.pre.bm) =>
       (/\ ~HasEvent(w, "SCULPT_dyntopo_save_persistent_base")
        /\ ~HasEvent(w, "BM_mesh_free")
        /\ (HasEvent(w, "BM_log_free") <=> last.pre.bm_log)
        /\ w.persistent_base = last.pre.persistent_base
        /\ ~w.bm /\ ~w.bm_log /\ ~w.me_dyntopo)

\* the disable ran without a boundary-rep mesh but with a log to free
C4_Witness ==
  /\ last.op = "disable_ex"
  /\ ~last.pre.bm
  /\ last.pre.bm_log
  /\ HasEvent(w, "BM_log_free")

(* ====================================================== properties: C5-C6 *)
\* C5: SCULPT_dyntopo_check_disk_sort returns true exactly when the vertex's
\* DYNVERT_NEED_DISK_SORT flag was set on entry and sorts exactly then, always
\* leaves the flag clear, and a second call on the same vertex right after the
\* first returns false, sorts nothing and changes no flag.
C5_CheckDiskSortIdempotent ==
  last.op = "check_disk_sort" =>
    (/\ last.ret = last.pre.bm_sort[last.arg[1]]
     /\ HasEvent(w, "BM_sort_disk_cycle") = last.pre.bm_sort[last.arg[1]]
     /\ ~w.bm_sort[last.arg[1]]
     /\ \A u \in 1..w.bm_totvert : u # last.arg[1] => w.bm_sort[u] = last.pre.bm_sort[u]
     /\ last.prev = <<"check_disk_sort", last.arg>> =>
          (~last.ret /\ ~HasEvent(w, "BM_sort_disk_cycle") /\ w.bm_sort = last.pre.bm_sort))

\* a second call on the vertex that the call before it sorted
C5_Witness ==
  /\ last.op = "check_disk_sort"
  /\ last.prev = <<"check_disk_sort", last.arg>>
  /\ ~last.ret
  /\ \E u \in 1..w.bm_totvert : w.bm_sort[u]

\* position in w.ev of the first event called name, or 0
EventPos(s, name) ==
  IF HasEvent(s, name) THEN CHOOSE i \in 1..Len(s.ev) :
       s.ev[i][1] = name /\ \A j \in 1..(i - 1) : s.ev[j][1] # name
  ELSE 0

\* C6: in every execution of SCULPT_dyntopo_get_cotangents a pending disk-cycle
\* sort of the queried vertex is done before the first prev/next disk link is
\* read: the vertex's DYNVERT_NEED_DISK_SORT flag is clear during the whole
\* walk of its disk cycle.
C6_SortBeforeWalk ==
  pc.at \in {"walk", "scale"} =>
    (/\ ~w.bm_sort[pc.v]
     /\ \A i \in 1..Len(w.ev) : w.ev[i][1] = "read_disk_link" => ~w.ev[i][3]
     /\ last.pre.bm_sort[pc.v] =>
          (/\ HasEvent(w, "BM_sort_disk_cycle")
           /\ HasEvent(w, "read_disk_link") =>
                EventPos(w, "BM_sort_disk_cycle") < EventPos(w, "read_disk_link")))

\* a query on a vertex whose sort was pending has walked the whole disk cycle
C6_Witness ==
  /\ pc.at = "scale"
  /\ last.op = "get_cotangents"
  /\ last.pre.bm_sort[pc.v]
  /\ HasEvent(w, "read_disk_link")

(* ====================================================== properties: C7-C9 *)
\* the slot of the vertex layer with the given type and name, or -1
OffsetOf(s, type, name) ==
  IF \E i \in 1..Len(s.bm_vdata) : s.bm_vdata[i].type = type /\ s.bm_vdata[i].name = name
    THEN (CHOOSE i \in 1..Len(s.bm_vdata) :
            /\ s.bm_vdata[i].type = type /\ s.bm_vdata[i].name = name
            /\ \A j \in 1..(i - 1) : ~(s.bm_vdata[j].type = type /\ s.bm_vdata[j].name = name)) - 1
    ELSE -1

\* C7: with a boundary-rep mesh, SCULPT_dyntopo_ensure_templayer(type, name) for an
\* absent layer adds exactly one vertex layer, a second call with the same
\* arguments right after it adds none, and SCULPT_dyntopo_get_templayer returns
\* the same (valid) offset after the first call and after the second.
C7_EnsureTemplayerIdempotent ==
  last.op = "ensure_templayer" =>
    (/\ OffsetOf(last.pre, last.arg[1], last.arg[2]) < 0
          => Len(w.bm_vdata) = Len(last.pre.bm_vdata) + 1
     /\ SCULPT_dyntopo_get_templayer(w, last.arg[1], last.arg[2]).ret >= 0
     /\ last.prev = <<"ensure_templayer", last.arg>> =>
          (/\ Len(w.bm_vdata) = Len(last.pre.bm_vdata)
           /\ SCULPT_dyntopo_get_templayer(w, last.arg[1], last.arg[2]).ret =
                SCULPT_dyntopo_get_templayer(last.pre, last.arg[1], last.arg[2]).ret))

\* the second of two calls, the first of which added the layer behind other layers
C7_Witness ==
  /\ last.op = "ensure_templayer"
  /\ last.prev = <<"ensure_templayer", last.arg>>
  /\ OffsetOf(w, last.arg[1], last.arg[2]) > 0
  /\ Len(w.bm_vdata) > 3

\* C8: after any operation that adds an attribute layer to the boundary-rep mesh,
\* the session's cached offsets and the copies handed to the PBVH and the undo
\* log are recomputed before any of them is read: no cached offset is read while
\* it differs from the offset of its layer in the current layout.
C8_NoStaleOffsetRead == ~HasEvent(w, "stale_read")

\* C9: SCULPT_dyntopo_get_templayer is a pure lookup: it adds no layer and changes
\* no cached offset or layer flag; it returns -1 when no vertex layer has the
\* given type and name and that layer's offset in the current layout otherwise.
C9_GetTemplayerPure ==
  last.op = "get_templayer" =>
    (/\ w = last.pre
     /\ last.ret = OffsetOf(w, last.arg[1], last.arg[2]))

\* a lookup that found the second layer of its type
C9_Witness ==
  /\ last.op = "get_templayer"
  /\ last.ret > CustomData_get_offset(w.bm_vdata, last.arg[1])

\* a lookup of a layer that is not there
C9_WitnessAbsent ==
  /\ last.op = "get_templayer"
  /\ last.ret = -1

(* ========================================================= properties: C10 *)
\* the pairs of corners that meet at a vertex of the seam edge from different faces
SeamCornerPairs ==
  {p \in Loops \X Loops :
     /\ p[1] < p[2]
     /\ LoopVert[p[1]] = LoopVert[p[2]]
     /\ LoopVert[p[1]] \in SeamEdge
     /\ LoopFace[p[1]] # LoopFace[p[2]]}

\* the solver vertices that list the loop
SolverVertsOf(s, l) ==
  {i \in 1..Len(s.verts) : \E j \in 1..Len(s.verts[i].ls) : s.verts[i].ls[j] = l}

\* C10: for faces that share a seam-marked edge, the corners on opposite sides of
\* the seam are never mapped to the same solver vertex by uvsolver_get_vert, also
\* when their UVs are equal, and solving writes no common value into both.
C10_SeamCornersKeptApart ==
  w.seam =>
    \A p \in SeamCornerPairs :
      /\ SolverVertsOf(w, p[1]) \cap SolverVertsOf(w, p[2]) = {}
      /\ ~(w.wrote[p[1]] # 0 /\ w.wrote[p[1]] = w.wrote[p[2]])

(* ========================================================= properties: C11 *)
\* the integer pair a corner's UV quantizes to
QuantizedUV(s, l) == <<Trunc(s.luv[l][1]), Trunc(s.luv[l][2])>>

\* the corners some solver vertex lists
GatheredLoops(s) == {l \in Loops : SolverVertsOf(s, l) # {}}

\* C11: within one brush application two corners are mapped to the same solver
\* vertex by uvsolver_get_vert if and only if their UVs quantize to the same
\* integer (x, y) pair: equal keys y*16384 + x only come from equal x and equal y.
C11_SameVertIffSameQuantizedUV ==
  pc.at = "uv_gather" =>
    \A l1, l2 \in GatheredLoops(w) :
      (SolverVertsOf(w, l1) \cap SolverVertsOf(w, l2) # {})
        <=> (QuantizedUV(w, l1) = QuantizedUV(w, l2))

(* ========================================================= properties: C12 *)
FaceHasSeam(s, f) == \E k \in 1..Len(FaceLoops[f]) : LoopOnSeam(s, FaceLoops[f][k])

ConstraintsOf(s, f, type) ==
  {j \in 1..Len(s.constraints) : s.constraints[j].tri = f /\ s.constraints[j].type = type}

Registered(s, f) == \E j \in 1..Len(s.fhash) : s.fhash[j] = f

CountEvents(s, name) == Cardinality({i \in 1..Len(s.ev) : s.ev[i][1] = name})

\* the place of a call in one application of SCULPT_uv_brush
UVRank(e) ==
  CASE e[1] = "BM_log_entry_add_ex" -> 0
    [] e[1] = "BM_log_face_modified" -> 1
    [] e[1] = "uvsolver_solve_begin" -> 2
    [] e[1] = "uvsolver_solve_step" -> 3
    [] e[1] = "uvsolver_free" -> 4

\* C13: an application of SCULPT_uv_brush that passes its entry guards runs the
\* gathering pass, then one uvsolver_solve_begin, then exactly 5
\* uvsolver_solve_step iterations, then frees the solver; it never returns after
\* fewer iterations or with the solver allocated.
C13_SolveRunsToCompletion ==
  /\ \A i, j \in 1..Len(w.ev) : i < j => UVRank(w.ev[i]) <= UVRank(w.ev[j])
  /\ CountEvents(w, "uvsolver_solve_begin") <= 1
  /\ CountEvents(w, "uvsolver_solve_step") <= 5
  /\ HasEvent(w, "uvsolver_solve_step") => HasEvent(w, "uvsolver_solve_begin")
  /\ HasEvent(w, "uvsolver_free") =>
       (/\ CountEvents(w, "uvsolver_solve_begin") = 1
        /\ CountEvents(w, "uvsolver_solve_step") = 5
        /\ CountEvents(w, "uvsolver_free") = 1)
  /\ pc = Idle => ~w.solver
  /\ (w.done /\ UVBrushGuards(w)) => HasEvent(w, "uvsolver_free")

\* a completed application that gathered both faces
C13_Witness ==
  /\ w.done
  /\ HasEvent(w, "uvsolver_free")
  /\ CountEvents(w, "BM_log_face_modified") = 2

\* C14: an application of SCULPT_uv_brush that changes a UV adds exactly one
\* undo-log entry, before the first BM_log_face_modified and before any UV is
\* written; an application that returns at an entry guard adds no entry and
\* changes no UV.
C14_OneLogEntryBeforeChanges ==
  /\ CountEvents(w, "BM_log_entry_add_ex") <= 1
  /\ (w.luv # w.luv0 \/ HasEvent(w, "BM_log_face_modified")) =>
       (/\ CountEvents(w, "BM_log_entry_add_ex") = 1
        /\ w.ev[1][1] = "BM_log_entry_add_ex")
  /\ ~UVBrushGuards(w) => (w.ev = <<>> /\ w.luv = w.luv0)

\* a completed application that moved a UV
C14_Witness ==
  /\ w.done
  /\ w.luv # w.luv0
  /\ CountEvents(w, "BM_log_entry_add_ex") = 1

\* an application that returned at a guard
C14_WitnessGuard ==
  /\ w.done
  /\ ~UVBrushGuards(w)

(* ========================================================= properties: C15 *)
\* C15: each completed enable transition and each completed disable transition
\* issues exactly one DEG_id_tag_update with ID_RECALC_GEOMETRY.
C15_OneGeometryTagPerOperation ==
  last.op \in {"exec", "disable_with_undo", "disable_ex"} =>
    CountEvents(w, "DEG_id_tag_update") = 1

(* ===================================================== properties: C16-C17 *)
\* C16: in both weight engines a zero total Voronoi area is checked for: the
\* division 1 / (2 x total area) is never made with a zero divisor and no weight
\* is scaled by its result.
C16_ZeroAreaNotDivided ==
  /\ \A i \in 1..Len(w.ev) : w.ev[i][1] = "divide" => w.ev[i][2] # <<0, 1>>
  /\ \A i \in 1..Len(w.r_ws) : RFinite(w.r_ws[i])

\* every wedge around the vertex is a triangle with area
NonDegenerate(ring) ==
  \A i \in 1..Len(ring) : VCross(RingPrev(ring, i), ring[i]) # 0

\* C17: for a vertex of valence at least 3 with non-degenerate surrounding
\* triangles the weights returned by the cotangent engines sum to 1.
C17_WeightsSumToOne ==
  (/\ last.op = "SCULPT_get_cotangents"
   /\ w.pbvh \in {"PBVH_BMESH", "PBVH_FACES"}
   /\ Len(w.ring) >= 3
   /\ NonDegenerate(w.ring)) =>
    RSum(w.r_ws, Len(w.ring)) = <<1, 1>>

(* ========================================================= properties: C20 *)
EngineCalls(s) ==
  {s.ev[i][1] : i \in 1..Len(s.ev)} \cap
    {"SCULPT_dyntopo_get_cotangents", "SCULPT_faces_get_cotangents"}

\* C20: SCULPT_get_cotangents runs exactly one variant for the PBVH type: the
\* dynamic-topology engine for a BMesh PBVH, the static-mesh engine for a faces
\* PBVH, and for grids it writes 1.0 into the first valence entries of the weight
\* array, calls neither engine and divides nothing.
C20_DispatchAndGridsUniform ==
  last.op = "SCULPT_get_cotangents" =>
    /\ w.pbvh = "PBVH_BMESH" => EngineCalls(w) = {"SCULPT_dyntopo_get_cotangents"}
    /\ w.pbvh = "PBVH_FACES" => EngineCalls(w) = {"SCULPT_faces_get_cotangents"}
    /\ w.pbvh = "PBVH_GRIDS" =>
         /\ EngineCalls(w) = {}
         /\ \A i \in 1..Len(w.ev) : w.ev[i][1] # "divide"
         /\ \A i \in 1..Len(w.r_ws) :
              w.r_ws[i] = IF i <= Len(w.ring) THEN <<1, 1>> ELSE last.pre.r_ws[i]
         /\ w.r_cot1 = last.pre.r_cot1 /\ w.r_cot2 = last.pre.r_cot2
         /\ w.r_area = last.pre.r_area /\ w.r_totarea = last.pre.r_totarea

C20_Witness ==
  /\ last.op = "SCULPT_get_cotangents"
  /\ w.pbvh = "PBVH_GRIDS"
  /\ Len(w.ring) = 4
  /\ w.r_ws[4] = <<1, 1>> /\ w.r_ws[5] = Garbage

(* ========================================================= properties: C18 *)
WarningOnly(flag) == flag # {} /\ "DYNTOPO_ERROR_MULTIRES" \notin flag

\* C18: when SCULPT_dynamic_topology_check returns warning bits only, the invoke
\* callback shows the warning popup and changes nothing, and the exec callback
\* enables dynamic topology on a Static session whatever the check returns.
C18_WarningStopsInvokeNotExec ==
  /\ (last.op = "invoke" /\ ~last.pre.bm /\ WarningOnly(last.flag)) =>
       (/\ last.popup = "dyntopo_warning_popup"
        /\ w = Snap(last.pre))
  /\ (last.op = "exec" /\ ~last.pre.bm) =>
       (w.bm /\ w.bm_log /\ w.me_dyntopo /\ HasEvent(w, "BM_log_create"))

\* the popup was shown for a warning, then exec ran on the same object and enabled
C18_Witness ==
  /\ last.op = "exec" /\ last.prev = <<"invoke", <<>>>>
  /\ ~last.pre.bm
  /\ SCULPT_dynamic_topology_check(last.pre, mods, cfg) = {"DYNTOPO_WARN_MODIFIER"}
  /\ w.bm /\ w.me_dyntopo

(* ========================================================= properties: C19 *)
\* an enable transition that found a persistent-base snapshot
EnabledWithBase ==
  last.op = "exec" /\ ~last.pre.bm /\ last.pre.persistent_base >= 0

\* C19: the enable transition reads the persistent-base snapshot only at indices
\* below the vertex count it was saved with, and a snapshot whose length differs
\* from the vertex count of the new boundary-rep mesh is not copied into the
\* per-vertex layers.
C19_PersistentBaseReadInBounds ==
  EnabledWithBase =>
    /\ ~HasEvent(w, "persistent_base_read_past_end")
    /\ last.pre.persistent_base # w.bm_totvert => ~HasEvent(w, "persistent_base_copy")

(* ========================================================= properties: C21 *)
\* C21: within one UV brush application the per-node gathering callbacks never run
\* concurrently: at most one callback is between its entry and its return, so the
\* solver's hashes, pools and boundary flags are accessed by one callback at a
\* time; the solve begins, and its steps run, only when every callback has returned.
C21_GatherSerial ==
  /\ pc.at \in {"uv_tasks", "uv_solve"} =>
       Cardinality({n \in UVNodes : TaskRunning(w, n)}) <= 1
  /\ (pc.at = "uv_solve" \/ HasEvent(w, "uvsolver_solve_begin")) =>
       \A n \in UVNodes : w.tasks[n] = "done"
  /\ \A i, j \in 1..Len(w.ev) :
       (i < j /\ w.ev[i][1] = "sculpt_uv_brush_cb" /\ w.ev[j][1] = "sculpt_uv_brush_cb")
         => w.ev[i][2] < w.ev[j][2]

\* both callbacks ran, both faces were gathered, and the five steps followed
C21_Witness ==
  /\ w.done /\ w.logged = UVNodes
  /\ CountEvents(w, "sculpt_uv_brush_cb") = 2
  /\ CountEvents(w, "uvsolver_solve_step") = 5

(* ========================================================= properties: C22 *)
\* C22: a relaxation pass (the whole of a solve step for a negative strength, its
\* first part otherwise) leaves the UV of every solver vertex that is pinned or
\* marked boundary as it was before the pass.
C22_RelaxKeepsPinnedAndBoundary ==
  [][(pc.at = "uv_solve" /\ pc'.at = "uv_solve") =>
       \A i \in 1..Len(w.verts) :
         (w.verts[i].pinned \/ w.verts[i].boundary) => w'.verts[i].uv = w.verts[i].uv]_vars

(* ========================================================= properties: C23 *)
\* C23: after each solve step every face corner that uvsolver_get_vert mapped to a
\* solver vertex during gathering holds the current UV of that solver vertex,
\* however many times corners were registered on it.
C23_MappedCornersWritten ==
  last.op = "uvsolver_solve_step" => \A l \in w.mapped : w.luv[l] = w.uv

(* ========================================================= properties: C24 *)
\* C24: uvsolver_ensure_face writes the entries vs[0..2] of a triangle record and
\* no other: for a face with more than three corners no write is made at index 3
\* or higher of the three-element array.
C24_NoWritePastTriangle ==
  \A j \in 1..Len(w.tris) : w.tris[j].oob = {}

UndoEvents(s) ==
  SelectSeq(s.ev, LAMBDA e : e[1] \in {"SCULPT_undo_push_begin", "SCULPT_undo_push_node",
                                       "SCULPT_undo_push_end"})

\* the calls the transition itself makes, between the first and the last of them
CoreSpan(s) ==
  {i \in 1..Len(s.ev) : s.ev[i][1] \in {"DEG_id_tag_update", "BM_log_create", "BM_log_free",
                                        "BM_mesh_free", "SCULPT_dyntopo_save_persistent_base"}}

NodePos(s) == EventPos(s, "SCULPT_undo_push_node")

\* C26: an enable or disable made through the with-undo wrappers produces one undo
\* entry: one push-begin, one node, one push-end, the DYNTOPO_BEGIN node after the
\* enable has run, the DYNTOPO_END node before the disable runs; in background mode
\* without an undo stack no push call is made and the transition still occurs; a
\* call that finds the session in the target state pushes nothing and changes nothing.
C26_OneUndoEntryPerTransition ==
  /\ (last.op = "exec" /\ ~last.pre.bm) =>
       /\ w.bm
       /\ CoreSpan(w) # {}
       /\ UndoEvents(w) = IF use_undo(cfg)
                            THEN << <<"SCULPT_undo_push_begin">>,
                                    <<"SCULPT_undo_push_node", "DYNTOPO_BEGIN">>,
                                    <<"SCULPT_undo_push_end">> >>
                            ELSE <<>>
       /\ use_undo(cfg) =>
            /\ w.ev[1][1] = "SCULPT_undo_push_begin"
            /\ w.ev[Len(w.ev)][1] = "SCULPT_undo_push_end"
            /\ \A i \in CoreSpan(w) : i < NodePos(w)
  /\ (last.op \in {"exec", "disable_with_undo"} /\ last.pre.bm) =>
       /\ ~w.bm
       /\ CoreSpan(w) # {}
       /\ UndoEvents(w) = IF use_undo(cfg)
                            THEN << <<"SCULPT_undo_push_begin">>,
                                    <<"SCULPT_undo_push_node", "DYNTOPO_END">>,
                                    <<"SCULPT_undo_push_end">> >>
                            ELSE <<>>
       /\ use_undo(cfg) =>
            /\ w.ev[1][1] = "SCULPT_undo_push_begin"
            /\ w.ev[Len(w.ev)][1] = "SCULPT_undo_push_end"
            /\ \A i \in CoreSpan(w) : NodePos(w) < i
  /\ (last.op = "disable_with_undo" /\ ~last.pre.bm) => w = last.pre

\* an enable with its undo entry, following a disable with its own
C26_Witness ==
  /\ last.op = "exec" /\ ~last.pre.bm /\ last.prev[1] = "disable_with_undo"
  /\ use_undo(cfg)
  /\ Len(UndoEvents(w)) = 3 /\ w.bm

\* in background mode without an undo stack the transition is made without a push
C26_WitnessBackground ==
  /\ last.op = "exec" /\ ~last.pre.bm
  /\ ~use_undo(cfg)
  /\ UndoEvents(w) = <<>> /\ w.bm

(* ========================================================= properties: C27 *)
JustEnabled == last.op = "exec" /\ ~last.pre.bm

\* C27: right after an enable every vertex of the boundary-rep mesh has
\* DYNVERT_NEED_DISK_SORT set and the undo log exists, created after the attribute
\* layers and the cached offsets were set up (it holds the offset of the
\* CD_DYNTOPO_VERT layer, and no cached offset was read stale), so the first
\* SCULPT_dyntopo_check_disk_sort call on a vertex returns true.
C27_EnableFlagsEveryVertex ==
  /\ JustEnabled =>
       /\ w.bm /\ w.bm_log
       /\ \A v \in 1..w.bm_totvert : w.bm_sort[v]
       /\ w.cd_dyn_vert >= 0
       /\ w.cd_dyn_vert = ActualOffset(w, "cd_dyn_vert")
       /\ w.log_cd_dyn_vert = w.cd_dyn_vert
       /\ ~HasEvent(w, "stale_read")
       /\ HasEvent(w, "BM_log_create")
  /\ (last.op = "check_disk_sort" /\ last.prev[1] = "exec") =>
       /\ last.ret
       /\ HasEvent(w, "BM_sort_disk_cycle")
       /\ \A u \in 1..w.bm_totvert : u # last.arg[1] => w.bm_sort[u]

\* the first check on a vertex of a mesh that was just enabled
C27_Witness ==
  /\ last.op = "check_disk_sort" /\ last.prev[1] = "exec"
  /\ last.ret /\ w.bm_totvert > 1 /\ w.bm_log

(* ========================================================= properties: C28 *)
\* C28: over any sequence of toggles from the Static state the boundary-rep mesh,
\* the undo log and ME_SCULPT_DYNAMIC_TOPOLOGY are present together or absent
\* together; each toggle flips the state; after each toggle the active vertex and
\* the active face are 0.
C28_ToggleKeepsTriple ==
  /\ w.bm = w.bm_log
  /\ w.bm = w.me_dyntopo
  /\ last.op = "exec" =>
       /\ w.bm = ~last.pre.bm
       /\ w.active_vertex = 0
       /\ w.active_face = 0

\* a disable that follows a cursor pick, on an object with modifiers
C28_Witness ==
  /\ last.op = "exec" /\ last.prev[1] = "cursor_pick"
  /\ last.pre.bm /\ last.pre.active_vertex # 0 /\ last.pre.active_face # 0
  /\ mods # <<>>
  /\ ~w.bm /\ ~w.bm_log /\ ~w.me_dyntopo

(* ========================================================= properties: C29 *)
InEnsure(t) == w.tpc[t] = "ensure"

\* C29 (as claimed): with several threads in give_parvert on one edit-mesh parent
\* whose vertex table is dirty, BM_mesh_elem_table_ensure runs under vparent_lock in
\* one thread at a time and once per dirty period at most, and no thread reads a
\* vertex through BM_vert_at_index while the table is dirty or is being rebuilt by
\* another thread.
C29_TableReadOnlyWhenBuilt ==
  /\ \A t \in Threads : InEnsure(t) => w.lock = t
  /\ Cardinality({t \in Threads : InEnsure(t)}) <= 1
  /\ w.rebuilds <= w.edits
  /\ last.op = "BM_vert_at_index" => (~last.pre.dirty /\ last.pre.table = "valid")

\* the rebuild itself is exclusive and happens once per dirty period
C29_RebuildExclusiveOnce ==
  /\ \A t \in Threads : InEnsure(t) => w.lock = t
  /\ Cardinality({t \in Threads : InEnsure(t)}) <= 1
  /\ w.rebuilds <= w.edits

(* ========================================================= properties: C30 *)
\* C30 (as claimed): compile_and_evaluate_shader_compile_unit terminates for every
\* compile unit: each nested call works on a unit smaller than its caller's, and
\* every ShaderOperation is made of a non-empty unit whose counted outputs do not
\* pass 8, a unit of one node with more than 8 outputs included.
C30_SplitsDescendToOperations ==
  /\ \A k \in 2..Len(w.stack) : Len(w.stack[k].unit) < Len(w.stack[k - 1].unit)
  /\ \A k \in 1..Len(w.operations) : w.operations[k] # <<>>
  /\ last.op = "ShaderOperation" =>
       NumberOfOutputs(w.nodes, last.arg, Len(last.arg)) <= MaxShaderOutputs

\* the operations that are made never pass the limit of output images
C30_OperationsWithinLimit ==
  last.op = "ShaderOperation" =>
    NumberOfOutputs(w.nodes, last.arg, Len(last.arg)) <= MaxShaderOutputs

====
